---- MODULE Spec2Model ----
(***************************************************************************)
(* A model of the luma-forge editor: the zustand editor store with its     *)
(* per-image undo/redo history (src/lib/store.ts), the lazily created      *)
(* image worker, and the processImage / processImageInWorker pipeline that *)
(* the preview effect and the export handler drive.                        *)
(***************************************************************************)
EXTENDS Integers, Sequences, FiniteSets, TLC

(***************************************************************************)
(* Bounds of the model.                                                    *)
(***************************************************************************)
\* most history entries, over all images, a mutation may bring about
MaxHistory == 2
\* most Workers getImageWorker may create
MaxWorkers == 2
\* most tasks (preview effect instances and exports) followed, where the
\* claims are about overlapping tasks
MaxTasks == 2
\* most tasks followed, elsewhere
MaxSoloTasks == 1

\* the longest side, in pixels, of the sources whose geometry is followed
MaxSide == 2
\* most points of the curves createLUT is applied to
MaxPoints == 2

(***************************************************************************)
(* Values of the store.                                                    *)
(***************************************************************************)
IdentityCurve == << [x |-> 0, y |-> 0], [x |-> 1, y |-> 1] >>

DEFAULT_CURVES ==
    [master |-> IdentityCurve, red |-> IdentityCurve,
     green |-> IdentityCurve, blue |-> IdentityCurve]

DEFAULT_ADJUSTMENTS ==
    [exposure |-> 0, contrast |-> 0, saturation |-> 0, temperature |-> 0,
     tint |-> 0, highlights |-> 0, shadows |-> 0, whiteBalance |-> 0,
     sharpness |-> 0, blur |-> 0, curves |-> DEFAULT_CURVES]

DEFAULT_CROP ==
    [x |-> 0, y |-> 0, width |-> 0, height |-> 0, rotation |-> 0,
     aspectRatio |-> 1, sourceWidth |-> 0, sourceHeight |-> 0]

\* An image string (a data URL).  file = 0 stands for null; width and height
\* are the size it decodes to; rendered tells a processImage result from the
\* bytes of an opened file, and adjustments and crop are the ones the pixels
\* were computed with.
NoImage ==
    [file |-> 0, width |-> 0, height |-> 0, rendered |-> FALSE,
     adjustments |-> DEFAULT_ADJUSTMENTS, crop |-> DEFAULT_CROP]

\* the bytes of an opened file, which decodes to 4 x 3 pixels
FileImage(n) == [NoImage EXCEPT !.file = n, !.width = 4, !.height = 3]

\* the files the user opens, and the strings written by the preview and
\* processing callers of the store
Files == { FileImage(1) }
Derived == { FileImage(2) }

\* the ids generateId hands out, in this order
ImageIds == { 1, 2 }

\* { ...base, ...updates }
Spread(base, updates) ==
    [f \in DOMAIN base |-> IF f \in DOMAIN updates THEN updates[f] ELSE base[f]]

\* array[i] and array.slice(0, n) of a zero-based array
At(array, i) == array[i + 1]
Slice(array, n) == SubSeq(array, 1, n)

\* The partial updates the editor panels send.
AdjustmentUpdates ==
    { [exposure |-> 50], [blur |-> 10, sharpness |-> 20] }

CropUpdates ==
    { [x |-> 1, y |-> 1, width |-> 2, height |-> 2, rotation |-> 90] }

\* no pixel function has been applied
NoCall == [fn |-> "none"]

VARIABLES
    images,          \* EditorState.images
    currentImageId,  \* EditorState.currentImageId (0 is null)
    nextId,          \* ids generateId has handed out
    lastOp,          \* the store method called last
    workerInstance,  \* worker-loader's workerInstance (0 is null)
    workerReady,     \* worker-loader's workerReady
    workers,         \* every Worker created so far, with its message queues
    tasks,           \* the preview effects and exports started so far
    effectTask,      \* the task of the effect instance now mounted (0: none)
    effectDeps,      \* the dependencies the processing effect last ran with
    applied          \* the pixel function applied last, with its input and output

storeVars == << images, currentImageId, nextId, lastOp >>

workerVars == << workerInstance, workerReady, workers >>

pipelineVars == << tasks, effectTask, effectDeps, applied >>

vars ==
    << images, currentImageId, nextId, lastOp,
       workerInstance, workerReady, workers, tasks, effectTask, effectDeps,
       applied >>

(***************************************************************************)
(* The editor store.                                                       *)
(***************************************************************************)
createImageData(id, imageData) ==
    [id |-> id,
     originalImage |-> imageData,
     previewImage |-> NoImage,
     processedImage |-> imageData,
     adjustments |-> DEFAULT_ADJUSTMENTS,
     crop |-> DEFAULT_CROP,
     history |-> << >>,
     historyIndex |-> -1]

\* indices of the images with the given id
IndicesOf(imgs, id) == { i \in 1..Len(imgs) : imgs[i].id = id }

HasImage(imgs, id) == id # 0 /\ IndicesOf(imgs, id) # {}

\* state.images.find(img => img.id === state.currentImageId)
getCurrentImage(imgs, cid) ==
    imgs[CHOOSE i \in IndicesOf(imgs, cid) : \A j \in IndicesOf(imgs, cid) : i <= j]

\* a map that patches every image
MapCurrent_everyImage(imgs, cid, patch) ==
    [i \in 1..Len(imgs) |-> Spread(imgs[i], patch)]

\* state.images.map(img => img.id === state.currentImageId ? { ...img, ...patch } : img)
MapCurrent(imgs, cid, patch) ==
    [i \in 1..Len(imgs) |-> IF imgs[i].id = cid THEN Spread(imgs[i], patch) ELSE imgs[i]]

setImage(imgs, cid, id, imageData) ==
    [images |-> << createImageData(id, imageData) >>, currentImageId |-> id]

addImage(imgs, cid, id, imageData) ==
    [images |-> Append(imgs, createImageData(id, imageData)), currentImageId |-> id]

\* imageDataArray.map(createImageData), ids handed out from firstId on
addImages(imgs, cid, firstId, imageDataArray) ==
    IF Len(imageDataArray) = 0
    THEN [images |-> imgs, currentImageId |-> cid]
    ELSE LET newImages ==
                 [k \in 1..Len(imageDataArray) |->
                     createImageData(firstId + k - 1, imageDataArray[k])]
             lastImage == newImages[Len(newImages)]
         IN [images |-> imgs \o newImages, currentImageId |-> lastImage.id]

\* array.filter(keep)
RECURSIVE Filter(_, _)
Filter(array, imageId) ==
    IF array = << >> THEN << >>
    ELSE IF Head(array).id # imageId
         THEN << Head(array) >> \o Filter(Tail(array), imageId)
         ELSE Filter(Tail(array), imageId)

\* removeImage that leaves currentImageId as it is
removeImage_keepsCurrent(imgs, cid, imageId) ==
    [images |-> Filter(imgs, imageId), currentImageId |-> cid]

removeImage(imgs, cid, imageId) ==
    LET newImages == Filter(imgs, imageId)
        newCurrentId ==
            IF cid = imageId
            THEN (IF Len(newImages) > 0 THEN newImages[1].id ELSE 0)
            ELSE cid
    IN [images |-> newImages, currentImageId |-> newCurrentId]

setCurrentImage(imgs, cid, imageId) ==
    [images |-> imgs, currentImageId |-> imageId]

setPreviewImage(imgs, cid, imageData) ==
    IF cid = 0 THEN imgs
    ELSE MapCurrent(imgs, cid, [previewImage |-> imageData])

setProcessedImage(imgs, cid, imageData) ==
    IF cid = 0 THEN imgs
    ELSE MapCurrent(imgs, cid, [processedImage |-> imageData])

\* updateAdjustments that commits the adjustments it has just set
updateAdjustments_commitsNew(imgs, cid, updates) ==
    IF cid = 0 \/ ~HasImage(imgs, cid) THEN imgs
    ELSE LET current == getCurrentImage(imgs, cid)
             newAdjustments == Spread(current.adjustments, updates)
             newHistory ==
                 Append(Slice(current.history, current.historyIndex + 1),
                        [adjustments |-> newAdjustments, crop |-> current.crop])
         IN MapCurrent(imgs, cid, [adjustments |-> newAdjustments,
                                history |-> newHistory,
                                historyIndex |-> Len(newHistory) - 1])

\* updateAdjustments that pushes onto the whole history, redo branch included
updateAdjustments_keepsFuture(imgs, cid, updates) ==
    IF cid = 0 \/ ~HasImage(imgs, cid) THEN imgs
    ELSE LET current == getCurrentImage(imgs, cid)
             newAdjustments == Spread(current.adjustments, updates)
             newHistory ==
                 Append(current.history,
                        [adjustments |-> current.adjustments, crop |-> current.crop])
         IN MapCurrent(imgs, cid, [adjustments |-> newAdjustments,
                                history |-> newHistory,
                                historyIndex |-> Len(newHistory) - 1])

updateAdjustments(imgs, cid, updates) ==
    IF cid = 0 \/ ~HasImage(imgs, cid) THEN imgs
    ELSE LET current == getCurrentImage(imgs, cid)
             newAdjustments == Spread(current.adjustments, updates)
             newHistory ==
                 Append(Slice(current.history, current.historyIndex + 1),
                        [adjustments |-> current.adjustments, crop |-> current.crop])
         IN MapCurrent(imgs, cid, [adjustments |-> newAdjustments,
                                history |-> newHistory,
                                historyIndex |-> Len(newHistory) - 1])

\* updateCrop that sets historyIndex to newHistory.length
updateCrop_indexPastEnd(imgs, cid, updates) ==
    IF cid = 0 \/ ~HasImage(imgs, cid) THEN imgs
    ELSE LET current == getCurrentImage(imgs, cid)
             newCrop == Spread(current.crop, updates)
             newHistory ==
                 Append(Slice(current.history, current.historyIndex + 1),
                        [adjustments |-> current.adjustments, crop |-> current.crop])
         IN MapCurrent(imgs, cid, [crop |-> newCrop,
                                history |-> newHistory,
                                historyIndex |-> Len(newHistory)])

updateCrop(imgs, cid, updates) ==
    IF cid = 0 \/ ~HasImage(imgs, cid) THEN imgs
    ELSE LET current == getCurrentImage(imgs, cid)
             newCrop == Spread(current.crop, updates)
             newHistory ==
                 Append(Slice(current.history, current.historyIndex + 1),
                        [adjustments |-> current.adjustments, crop |-> current.crop])
         IN MapCurrent(imgs, cid, [crop |-> newCrop,
                                history |-> newHistory,
                                historyIndex |-> Len(newHistory) - 1])

\* undo that pops the entry it restores
undo_popsEntry(imgs, cid) ==
    IF cid = 0 \/ ~HasImage(imgs, cid) THEN imgs
    ELSE LET current == getCurrentImage(imgs, cid)
         IN IF current.historyIndex < 0 THEN imgs
            ELSE LET previousState == At(current.history, current.historyIndex)
                 IN MapCurrent(imgs, cid, [adjustments |-> previousState.adjustments,
                                crop |-> previousState.crop,
                                history |-> Slice(current.history, current.historyIndex),
                                historyIndex |-> current.historyIndex - 1])

undo(imgs, cid) ==
    IF cid = 0 \/ ~HasImage(imgs, cid) THEN imgs
    ELSE LET current == getCurrentImage(imgs, cid)
         IN IF current.historyIndex < 0 THEN imgs
            ELSE LET previousState == At(current.history, current.historyIndex)
                 IN MapCurrent(imgs, cid, [adjustments |-> previousState.adjustments,
                                crop |-> previousState.crop,
                                historyIndex |-> current.historyIndex - 1])

\* redo that restores the adjustments and forgets the crop
redo_forgetsCrop(imgs, cid) ==
    IF cid = 0 \/ ~HasImage(imgs, cid) THEN imgs
    ELSE LET current == getCurrentImage(imgs, cid)
         IN IF current.historyIndex >= Len(current.history) - 1 THEN imgs
            ELSE LET nextState == At(current.history, current.historyIndex + 1)
                 IN MapCurrent(imgs, cid, [adjustments |-> nextState.adjustments,
                                historyIndex |-> current.historyIndex + 1])

redo(imgs, cid) ==
    IF cid = 0 \/ ~HasImage(imgs, cid) THEN imgs
    ELSE LET current == getCurrentImage(imgs, cid)
         IN IF current.historyIndex >= Len(current.history) - 1 THEN imgs
            ELSE LET nextState == At(current.history, current.historyIndex + 1)
                 IN MapCurrent(imgs, cid, [adjustments |-> nextState.adjustments,
                                crop |-> nextState.crop,
                                historyIndex |-> current.historyIndex + 1])

\* reset that leaves the history and historyIndex as they are
reset_keepsHistory(imgs, cid) ==
    IF cid = 0 THEN imgs
    ELSE MapCurrent(imgs, cid, [adjustments |-> DEFAULT_ADJUSTMENTS,
                        crop |-> DEFAULT_CROP])

reset(imgs, cid) ==
    IF cid = 0 THEN imgs
    ELSE MapCurrent(imgs, cid, [adjustments |-> DEFAULT_ADJUSTMENTS,
                        crop |-> DEFAULT_CROP,
                        history |-> << >>,
                        historyIndex |-> -1])

clearAll(imgs, cid) == [images |-> << >>, currentImageId |-> 0]

\* the image the selectors (useCurrentImage, useAdjustments, ...) read
CurrentExists == HasImage(images, currentImageId)
Current == getCurrentImage(images, currentImageId)
CurrentAfter == getCurrentImage(images', currentImageId')

(***************************************************************************)
(* The store's actions: one call of a store method each.                   *)
(***************************************************************************)
RECURSIVE HistoryEntries(_)
HistoryEntries(imgs) ==
    IF imgs = << >> THEN 0 ELSE Len(Head(imgs).history) + HistoryEntries(Tail(imgs))

\* the history entry a mutation would append still fits the model's bound
HistoryRoom ==
    HasImage(images, currentImageId) =>
        LET current == getCurrentImage(images, currentImageId)
        IN HistoryEntries(images) - Len(current.history) + current.historyIndex + 2
               <= MaxHistory

SetImage ==
    \E imageData \in Files :
        /\ nextId < Cardinality(ImageIds)
        /\ LET r == setImage(images, currentImageId, nextId + 1, imageData)
           IN images' = r.images /\ currentImageId' = r.currentImageId
        /\ nextId' = nextId + 1
        /\ lastOp' = "setImage"
        /\ UNCHANGED << workerVars, pipelineVars >>

AddImage ==
    \E imageData \in Files :
        /\ nextId < Cardinality(ImageIds)
        /\ LET r == addImage(images, currentImageId, nextId + 1, imageData)
           IN images' = r.images /\ currentImageId' = r.currentImageId
        /\ nextId' = nextId + 1
        /\ lastOp' = "addImage"
        /\ UNCHANGED << workerVars, pipelineVars >>

AddImages ==
    \E n \in 0..2 : \E imageDataArray \in [1..n -> Files] :
        /\ nextId + n <= Cardinality(ImageIds)
        /\ LET r == addImages(images, currentImageId, nextId + 1, imageDataArray)
           IN images' = r.images /\ currentImageId' = r.currentImageId
        /\ nextId' = nextId + n
        /\ lastOp' = "addImages"
        /\ UNCHANGED << workerVars, pipelineVars >>

RemoveImage ==
    \E imageId \in 1..nextId :
        /\ LET r == removeImage(images, currentImageId, imageId)
           IN images' = r.images /\ currentImageId' = r.currentImageId
        /\ UNCHANGED nextId
        /\ lastOp' = "removeImage"
        /\ UNCHANGED << workerVars, pipelineVars >>

SetCurrentImage ==
    \E imageId \in 1..nextId :
        /\ LET r == setCurrentImage(images, currentImageId, imageId)
           IN images' = r.images /\ currentImageId' = r.currentImageId
        /\ UNCHANGED nextId
        /\ lastOp' = "setCurrentImage"
        /\ UNCHANGED << workerVars, pipelineVars >>

SetPreviewImage ==
    \E imageData \in Derived :
        /\ images' = setPreviewImage(images, currentImageId, imageData)
        /\ UNCHANGED << currentImageId, nextId >>
        /\ lastOp' = "setPreviewImage"
        /\ UNCHANGED << workerVars, pipelineVars >>

SetProcessedImage ==
    \E imageData \in Derived :
        /\ images' = setProcessedImage(images, currentImageId, imageData)
        /\ UNCHANGED << currentImageId, nextId >>
        /\ lastOp' = "setProcessedImage"
        /\ UNCHANGED << workerVars, pipelineVars >>

UpdateAdjustments ==
    \E updates \in AdjustmentUpdates :
        /\ HistoryRoom
        /\ images' = updateAdjustments(images, currentImageId, updates)
        /\ UNCHANGED << currentImageId, nextId >>
        /\ lastOp' = "updateAdjustments"
        /\ UNCHANGED << workerVars, pipelineVars >>

UpdateCrop ==
    \E updates \in CropUpdates :
        /\ HistoryRoom
        /\ images' = updateCrop(images, currentImageId, updates)
        /\ UNCHANGED << currentImageId, nextId >>
        /\ lastOp' = "updateCrop"
        /\ UNCHANGED << workerVars, pipelineVars >>

Undo ==
    /\ images' = undo(images, currentImageId)
    /\ UNCHANGED << currentImageId, nextId >>
    /\ lastOp' = "undo"
    /\ UNCHANGED << workerVars, pipelineVars >>

Redo ==
    /\ images' = redo(images, currentImageId)
    /\ UNCHANGED << currentImageId, nextId >>
    /\ lastOp' = "redo"
    /\ UNCHANGED << workerVars, pipelineVars >>

Reset ==
    /\ images' = reset(images, currentImageId)
    /\ UNCHANGED << currentImageId, nextId >>
    /\ lastOp' = "reset"
    /\ UNCHANGED << workerVars, pipelineVars >>

ClearAll ==
    /\ LET r == clearAll(images, currentImageId)
       IN images' = r.images /\ currentImageId' = r.currentImageId
    /\ UNCHANGED nextId
    /\ lastOp' = "clearAll"
    /\ UNCHANGED << workerVars, pipelineVars >>

(***************************************************************************)
(* The worker loader: one lazily created Worker, kept in workerInstance.   *)
(* A worker is a record: alive (not terminated), inbox (requests posted to *)
(* it and not yet handled), outbox (events it has posted back and the main *)
(* thread has not yet dispatched) and listeners (the processImageInWorker  *)
(* calls whose message and error listeners are registered on it).          *)
(***************************************************************************)
NewWorker == [alive |-> TRUE, inbox |-> << >>, outbox |-> << >>, listeners |-> {}]

\* getImageWorker that creates a Worker on every call
getImageWorker_perCall(ws, instance, ready) ==
    [workers |-> Append(ws, NewWorker), workerInstance |-> Len(ws) + 1,
     workerReady |-> TRUE, worker |-> Len(ws) + 1]

\* getImageWorker(): the loader's state after the call and the worker returned
getImageWorker(ws, instance, ready) ==
    IF instance # 0 /\ ready
    THEN [workers |-> ws, workerInstance |-> instance, workerReady |-> ready,
          worker |-> instance]
    ELSE [workers |-> Append(ws, NewWorker), workerInstance |-> Len(ws) + 1,
          workerReady |-> TRUE, worker |-> Len(ws) + 1]

\* terminateWorker(); keepPosted tells whether the events the worker had
\* already posted are still dispatched
terminateWorker(ws, instance, ready, keepPosted) ==
    IF instance # 0
    THEN [workers |->
              [ws EXCEPT ![instance] =
                  [@ EXCEPT !.alive = FALSE, !.inbox = << >>,
                            !.outbox = IF keepPosted THEN @ ELSE << >>]],
          workerInstance |-> 0, workerReady |-> FALSE]
    ELSE [workers |-> ws, workerInstance |-> instance, workerReady |-> ready]

\* a call of getImageWorker creates no worker, or the model has room for one
WorkerRoom == (workerInstance # 0 /\ workerReady) \/ Len(workers) < MaxWorkers

GetImageWorker ==
    /\ WorkerRoom
    /\ LET r == getImageWorker(workers, workerInstance, workerReady)
       IN /\ workers' = r.workers
          /\ workerInstance' = r.workerInstance
          /\ workerReady' = r.workerReady
    /\ UNCHANGED << storeVars, pipelineVars >>

TerminateWorker ==
    \E keepPosted \in BOOLEAN :
        /\ LET r == terminateWorker(workers, workerInstance, workerReady, keepPosted)
           IN /\ workers' = r.workers
              /\ workerInstance' = r.workerInstance
              /\ workerReady' = r.workerReady
        /\ UNCHANGED << storeVars, pipelineVars >>

(***************************************************************************)
(* The worker script: self.onmessage.                                      *)
(***************************************************************************)
\* self.onmessage that sharpens before it blurs
WorkerStages_sharpenFirst(adjustments) ==
    << "color" >>
        \o (IF "curves" \in DOMAIN adjustments THEN << "curves" >> ELSE << >>)
        \o (IF adjustments.sharpness > 0 THEN << "sharpen" >> ELSE << >>)
        \o (IF adjustments.blur > 0 THEN << "blur" >> ELSE << >>)

\* the stages self.onmessage runs on a request, in the order it runs them
WorkerStages(adjustments) ==
    << "color" >>
        \o (IF "curves" \in DOMAIN adjustments THEN << "curves" >> ELSE << >>)
        \o (IF adjustments.blur > 0 THEN << "blur" >> ELSE << >>)
        \o (IF adjustments.sharpness > 0 THEN << "sharpen" >> ELSE << >>)

\* self.onmessage that answers with the width and the height exchanged
WorkerResponse_swapsSize(request, thrownAt) ==
    IF thrownAt = 0
    THEN [type |-> "message", req |-> request.req, success |-> TRUE,
          pixels |-> [request.pixels EXCEPT !.rendered = TRUE,
                                            !.adjustments = request.adjustments],
          width |-> request.height, height |-> request.width]
    ELSE [type |-> "message", req |-> request.req, success |-> FALSE,
          pixels |-> NoImage, width |-> 0, height |-> 0,
          error |-> WorkerStages(request.adjustments)[thrownAt]]

\* the response self.onmessage posts: thrownAt = 0 when no stage throws,
\* else the number of the stage that throws, whose name stands for the
\* message of the error
WorkerResponse(request, thrownAt) ==
    IF thrownAt = 0
    THEN [type |-> "message", req |-> request.req, success |-> TRUE,
          pixels |-> [request.pixels EXCEPT !.rendered = TRUE,
                                            !.adjustments = request.adjustments],
          width |-> request.width, height |-> request.height]
    ELSE [type |-> "message", req |-> request.req, success |-> FALSE,
          pixels |-> NoImage, width |-> 0, height |-> 0,
          error |-> WorkerStages(request.adjustments)[thrownAt]]

\* what self.onmessage did for the request, for the log of the run
WorkerEvents(request, thrownAt) ==
    IF thrownAt = 0
    THEN WorkerStages(request.adjustments) \o << "response" >>
    ELSE SubSeq(WorkerStages(request.adjustments), 1, thrownAt) \o << "response" >>

Log(ts, t, events) == [ts EXCEPT ![t].trace = @ \o events]

\* self.onmessage handles the oldest request of worker w
WorkerOnMessage(w) ==
    /\ workers[w].alive
    /\ workers[w].inbox # << >>
    /\ LET request == Head(workers[w].inbox)
       IN \E thrownAt \in 0..Len(WorkerStages(request.adjustments)) :
            /\ workers' =
                 [workers EXCEPT ![w].inbox = Tail(@),
                                 ![w].outbox = Append(@, WorkerResponse(request, thrownAt))]
            /\ tasks' = Log(tasks, request.req, WorkerEvents(request, thrownAt))
    /\ UNCHANGED << storeVars, workerInstance, workerReady, effectTask, effectDeps, applied >>

\* an error the worker script does not catch: the request gets no response and
\* an error event is posted to the Worker object
WorkerUncaughtError(w) ==
    /\ workers[w].alive
    /\ workers[w].inbox # << >>
    /\ LET request == Head(workers[w].inbox)
       IN workers' =
            [workers EXCEPT ![w].inbox = Tail(@),
                            ![w].outbox =
                                Append(@, [type |-> "error", req |-> request.req,
                                           success |-> FALSE, pixels |-> NoImage,
                                           width |-> 0, height |-> 0])]
    /\ UNCHANGED << storeVars, workerInstance, workerReady, pipelineVars >>

(***************************************************************************)
(* processImage and processImageInWorker, on the main thread.  A task is   *)
(* one preview effect instance or one export, with the processImage run it *)
(* starts: pc is the callback it waits for, active the effect's flag,      *)
(* worker the Worker its request went to, settledBy the request whose      *)
(* response settled its processImageInWorker promise, received the pixels  *)
(* of that response, result the string processImage resolved with, and     *)
(* trace the stages the run and the worker went through for it.  imageData *)
(* is the state of the buffer of the ImageData the run read from its       *)
(* canvas and buffer the state of the clone it posted, as the main thread  *)
(* sees them: "none", "readable" or "detached"; cleanedAt is the pc the    *)
(* run had when the cleanup of its effect ran.                             *)
(***************************************************************************)
NewTask(kind, pc, src, adjustments, crop) ==
    [kind |-> kind, pc |-> pc, active |-> TRUE, src |-> src,
     adjustments |-> adjustments, crop |-> crop, worker |-> 0, settledBy |-> 0,
     received |-> NoImage, result |-> NoImage, trace |-> << >>,
     imageData |-> "none", buffer |-> "none", cleanedAt |-> "never"]

hasCrop(crop) == crop.width > 0 /\ crop.height > 0
hasRotation(crop) == crop.rotation # 0 /\ crop.rotation % 360 # 0

\* |cos| and |sin| of a rotation that is a whole number of quarter turns
AbsCos(rotation) == IF rotation % 180 = 0 THEN 1 ELSE 0
AbsSin(rotation) == IF rotation % 180 = 0 THEN 0 ELSE 1

\* the branch of processImage's geometry step
GeometryPath(crop) ==
    IF hasRotation(crop) /\ hasCrop(crop) THEN "rotateCrop"
    ELSE IF hasRotation(crop) THEN "rotate"
    ELSE IF hasCrop(crop) THEN "crop"
    ELSE "full"

\* a geometry step that keeps only the part of the crop inside the source
GeometrySize_clamped(src, crop) ==
    IF hasCrop(crop)
    THEN [width |-> IF crop.width > src.width THEN src.width ELSE crop.width,
          height |-> IF crop.height > src.height THEN src.height ELSE crop.height]
    ELSE IF hasRotation(crop)
    THEN [width |-> src.width * AbsCos(crop.rotation) + src.height * AbsSin(crop.rotation),
          height |-> src.width * AbsSin(crop.rotation) + src.height * AbsCos(crop.rotation)]
    ELSE [width |-> src.width, height |-> src.height]

\* the size of the canvas whose pixels are read after the geometry step
GeometrySize(src, crop) ==
    IF hasCrop(crop) THEN [width |-> crop.width, height |-> crop.height]
    ELSE IF hasRotation(crop)
    THEN [width |-> src.width * AbsCos(crop.rotation) + src.height * AbsSin(crop.rotation),
          height |-> src.width * AbsSin(crop.rotation) + src.height * AbsCos(crop.rotation)]
    ELSE [width |-> src.width, height |-> src.height]

\* a catch block that clears the displayed image
afterFailure_clearsImage(imgs, cid) == setProcessedImage(imgs, cid, NoImage)

\* the catch blocks of the callers of processImage: they log, or alert
afterFailure(imgs, cid) == imgs

\* processImage resolves with result: the continuation of its caller
Resolved(task, result) ==
    [task EXCEPT !.result = result,
                 !.pc = IF task.kind = "export" THEN "done"
                        ELSE IF task.active THEN "rafCommit" ELSE "discarded"]

Rejected(task) == [task EXCEPT !.pc = "rejected"]

\* canvas.toDataURL after ctx.putImageData(processedImageData, 0, 0)
CanvasResult(task) ==
    [task.received EXCEPT !.width = GeometrySize(task.src, task.crop).width,
                          !.height = GeometrySize(task.src, task.crop).height]

\* processImageInWorker(imageData, adjustments) called by task t: the worker
\* loader's state once the listeners are added and the request is posted
processImageInWorker(ws, instance, ready, t, task) ==
    LET r == getImageWorker(ws, instance, ready)
        size == GeometrySize(task.src, task.crop)
        request == [req |-> t,
                    pixels |-> [task.src EXCEPT !.crop = task.crop],
                    width |-> size.width, height |-> size.height,
                    adjustments |-> task.adjustments]
    IN [r EXCEPT !.workers =
            [@ EXCEPT ![r.worker].listeners = @ \cup {t},
                      ![r.worker].inbox = Append(@, request)]]

\* the caller of processImageInWorker once the request is posted to worker:
\* buffer = imageData.data.buffer.slice(0) is in the transfer list of
\* postMessage and is detached, imageData.data is not
postMessage(task, worker) ==
    [task EXCEPT !.pc = "await", !.worker = worker,
                 !.imageData = "readable", !.buffer = "detached"]

\* a call whose error listener does nothing
Settle_ignoresError(task, e) ==
    IF e.type = "message" /\ e.success
    THEN LET got == [task EXCEPT !.settledBy = e.req, !.received = e.pixels]
         IN IF GeometryPath(task.crop) = "rotate"
            THEN Resolved(got, CanvasResult(got))
            ELSE [got EXCEPT !.pc = "raf3"]
    ELSE IF e.type = "error" THEN task
    ELSE Rejected([task EXCEPT !.settledBy = e.req])

\* handleMessage and handleError of one call, on the event e
Settle(task, e) ==
    IF e.type = "message" /\ e.success
    THEN LET got == [task EXCEPT !.settledBy = e.req, !.received = e.pixels]
         IN IF GeometryPath(task.crop) = "rotate"
            THEN Resolved(got, CanvasResult(got))
            ELSE [got EXCEPT !.pc = "raf3"]
    ELSE Rejected([task EXCEPT !.settledBy = e.req])

\* the main thread dispatches the oldest event worker w has posted: every
\* listener registered on the Worker object is called with it
Deliver(w) ==
    /\ workers[w].outbox # << >>
    /\ LET e == Head(workers[w].outbox)
           called == workers[w].listeners
       IN /\ tasks' =
                [t \in 1..Len(tasks) |->
                    IF t \in called THEN Settle(tasks[t], e) ELSE tasks[t]]
          /\ workers' = [workers EXCEPT ![w].outbox = Tail(@), ![w].listeners = {}]
          /\ images' =
                IF called # {} /\ ~(e.type = "message" /\ e.success)
                THEN afterFailure(images, currentImageId)
                ELSE images
    /\ UNCHANGED << currentImageId, nextId, lastOp, workerInstance, workerReady,
                    effectTask, effectDeps, applied >>

\* setTimeout(scheduleUpdate, 16) fires
TimerFires(t) ==
    /\ tasks[t].pc = "timer"
    /\ tasks' = [tasks EXCEPT ![t].pc = "rafStart"]
    /\ UNCHANGED << storeVars, workerVars, effectTask, effectDeps, applied >>

\* the animation frame of scheduleUpdate: processImage is called
RafStart(t) ==
    /\ tasks[t].pc = "rafStart"
    /\ tasks' = [tasks EXCEPT ![t].pc = "load"]
    /\ UNCHANGED << storeVars, workerVars, effectTask, effectDeps, applied >>

\* img.onload
ImgLoad(t) ==
    /\ tasks[t].pc = "load"
    /\ tasks' = [tasks EXCEPT ![t].pc = "raf1"]
    /\ UNCHANGED << storeVars, workerVars, effectTask, effectDeps, applied >>

\* img.onerror
ImgError(t) ==
    /\ tasks[t].pc = "load"
    /\ tasks' = [tasks EXCEPT ![t] = Rejected(@)]
    /\ images' = afterFailure(images, currentImageId)
    /\ UNCHANGED << currentImageId, nextId, lastOp, workerVars, effectTask, effectDeps, applied >>

\* the geometry step; on the rotation-only branch the pixels are read and
\* posted in the same callback
Geometry(t) ==
    /\ tasks[t].pc = "raf1"
    /\ \E hasContext \in BOOLEAN :
        IF ~hasContext
        THEN /\ tasks' = [tasks EXCEPT ![t] = Rejected(@)]
             /\ images' = afterFailure(images, currentImageId)
             /\ UNCHANGED << currentImageId, nextId, lastOp, workerVars >>
        ELSE IF GeometryPath(tasks[t].crop) = "rotate"
        THEN /\ WorkerRoom
             /\ LET r == processImageInWorker(workers, workerInstance, workerReady,
                                              t, tasks[t])
                IN /\ workers' = r.workers
                   /\ workerInstance' = r.workerInstance
                   /\ workerReady' = r.workerReady
                   /\ tasks' = Log([tasks EXCEPT ![t] = postMessage(@, r.worker)],
                                   t, << "geometry", "post" >>)
             /\ UNCHANGED storeVars
        ELSE /\ tasks' = Log([tasks EXCEPT ![t].pc = "raf2"], t, << "geometry" >>)
             /\ UNCHANGED << storeVars, workerVars >>
    /\ UNCHANGED << effectTask, effectDeps, applied >>

\* ctx.getImageData and processImageInWorker on the other three branches
PostPixels(t) ==
    /\ tasks[t].pc = "raf2"
    /\ WorkerRoom
    /\ LET r == processImageInWorker(workers, workerInstance, workerReady, t, tasks[t])
       IN /\ workers' = r.workers
          /\ workerInstance' = r.workerInstance
          /\ workerReady' = r.workerReady
          /\ tasks' = Log([tasks EXCEPT ![t] = postMessage(@, r.worker)],
                          t, << "post" >>)
    /\ UNCHANGED << storeVars, effectTask, effectDeps, applied >>

\* ctx.putImageData
PutPixels(t) ==
    /\ tasks[t].pc = "raf3"
    /\ tasks' = [tasks EXCEPT ![t].pc = "raf4"]
    /\ UNCHANGED << storeVars, workerVars, effectTask, effectDeps, applied >>

\* resolve(canvas.toDataURL('image/png'))
Resolve(t) ==
    /\ tasks[t].pc = "raf4"
    /\ tasks' = [tasks EXCEPT ![t] = Resolved(@, CanvasResult(@))]
    /\ UNCHANGED << storeVars, workerVars, effectTask, effectDeps, applied >>

\* the animation frame that stores the result of a preview run
CommitRaf(t) ==
    /\ tasks[t].pc = "rafCommit"
    /\ IF tasks[t].active
       THEN /\ images' = setProcessedImage(images, currentImageId, tasks[t].result)
            /\ tasks' = [tasks EXCEPT ![t].pc = "done"]
       ELSE /\ images' = images
            /\ tasks' = [tasks EXCEPT ![t].pc = "discarded"]
    /\ UNCHANGED << currentImageId, nextId, lastOp, workerVars, effectTask, effectDeps, applied >>

\* handleExport
HandleExport(maxTasks) ==
    /\ CurrentExists
    /\ Len(tasks) < maxTasks
    /\ tasks' = Append(tasks, NewTask("export", "load", Current.originalImage,
                                      Current.adjustments, Current.crop))
    /\ UNCHANGED << storeVars, workerVars, effectTask, effectDeps, applied >>

\* what the processing effect depends on, as the selectors return it
Deps ==
    IF CurrentExists
    THEN [previewImage |-> Current.previewImage,
          adjustments |-> Current.adjustments, crop |-> Current.crop]
    ELSE [previewImage |-> NoImage,
          adjustments |-> DEFAULT_ADJUSTMENTS, crop |-> DEFAULT_CROP]

\* a cleanup that clears the timer and the frame and leaves active set
Cleanup_keepsActive(ts, t) ==
    IF t = 0 THEN ts
    ELSE [ts EXCEPT ![t].cleanedAt = ts[t].pc,
                    ![t].pc = IF @ \in { "timer", "rafStart" } THEN "cancelled" ELSE @]

\* the cleanup of the effect instance now mounted
Cleanup(ts, t) ==
    IF t = 0 THEN ts
    ELSE [ts EXCEPT ![t].active = FALSE,
                    ![t].cleanedAt = ts[t].pc,
                    ![t].pc = IF @ \in { "timer", "rafStart" } THEN "cancelled" ELSE @]

\* the dependencies changed: React cleans the effect up and runs it again.
\* Once maxTasks tasks exist the new effect instance is not followed: its
\* timer does not fire within the behaviours of the model.
EffectRun(maxTasks) ==
    /\ Deps # effectDeps
    /\ effectDeps' = Deps
    /\ IF Deps.previewImage = NoImage \/ Len(tasks) >= maxTasks
       THEN /\ tasks' = Cleanup(tasks, effectTask)
            /\ effectTask' = 0
       ELSE /\ tasks' = Append(Cleanup(tasks, effectTask),
                               NewTask("preview", "timer", Deps.previewImage,
                                       Deps.adjustments, Deps.crop))
            /\ effectTask' = Len(tasks) + 1
    /\ UNCHANGED << storeVars, workerVars, applied >>

Init ==
    /\ images = << >>
    /\ currentImageId = 0
    /\ nextId = 0
    /\ lastOp = "create"
    /\ workerInstance = 0
    /\ workerReady = FALSE
    /\ workers = << >>
    /\ tasks = << >>
    /\ effectTask = 0
    /\ effectDeps = [previewImage |-> NoImage,
                     adjustments |-> DEFAULT_ADJUSTMENTS, crop |-> DEFAULT_CROP]
    /\ applied = NoCall

NextStore ==
    \/ SetImage
    \/ AddImage
    \/ AddImages
    \/ RemoveImage
    \/ SetCurrentImage
    \/ SetPreviewImage
    \/ SetProcessedImage
    \/ UpdateAdjustments
    \/ UpdateCrop
    \/ Undo
    \/ Redo
    \/ Reset
    \/ ClearAll

SpecStore == Init /\ [][NextStore]_vars

\* the editor is open on one image whose preview has been generated
InitPipeline ==
    /\ images = << [createImageData(1, FileImage(1)) EXCEPT !.previewImage = FileImage(2)] >>
    /\ currentImageId = 1
    /\ nextId = 1
    /\ lastOp = "setPreviewImage"
    /\ workerInstance = 0
    /\ workerReady = FALSE
    /\ workers = << >>
    /\ tasks = << >>
    /\ effectTask = 0
    /\ effectDeps = [previewImage |-> NoImage,
                     adjustments |-> DEFAULT_ADJUSTMENTS, crop |-> DEFAULT_CROP]
    /\ applied = NoCall

\* the steps of the tasks and of the workers
TaskStep(t) ==
    \/ TimerFires(t)
    \/ RafStart(t)
    \/ ImgLoad(t)
    \/ ImgError(t)
    \/ Geometry(t)
    \/ PostPixels(t)
    \/ PutPixels(t)
    \/ Resolve(t)
    \/ CommitRaf(t)

WorkerStep(w) ==
    \/ WorkerOnMessage(w)
    \/ WorkerUncaughtError(w)
    \/ Deliver(w)

\* the editor with its preview effect, exports and adjustment edits
NextEditor(maxTasks) ==
    \/ UpdateAdjustments
    \/ EffectRun(maxTasks)
    \/ HandleExport(maxTasks)
    \/ \E t \in 1..Len(tasks) : TaskStep(t)
    \/ \E w \in 1..Len(workers) : WorkerStep(w)

NextPipeline == NextEditor(MaxTasks)

SpecPipeline == InitPipeline /\ [][NextPipeline]_vars

NextRun == NextEditor(MaxSoloTasks)

\* the preview run and the exports of one image that is not edited, with a
\* worker that takes every request it has received and an event loop that
\* dispatches every event posted to it
NextCalls ==
    \/ EffectRun(MaxTasks)
    \/ HandleExport(MaxTasks)
    \/ \E t \in 1..Len(tasks) : TaskStep(t)
    \/ \E w \in 1..Len(workers) : WorkerStep(w)

SpecCalls ==
    /\ InitPipeline
    /\ [][NextCalls]_vars
    /\ WF_vars(\E w \in 1..Len(workers) : WorkerOnMessage(w) \/ WorkerUncaughtError(w))
    /\ WF_vars(\E w \in 1..Len(workers) : Deliver(w))

SpecRun == InitPipeline /\ [][NextRun]_vars

\* the adjustments and crops an image is edited to before its stages are
\* followed: every combination of blur, sharpness, crop and rotation
StageAdjustments ==
    { [blur |-> 0], [blur |-> 10], [sharpness |-> 20], [blur |-> 10, sharpness |-> 20] }

StageCrops ==
    { [rotation |-> 0], [rotation |-> 90],
      [x |-> 1, y |-> 1, width |-> 2, height |-> 2],
      [x |-> 1, y |-> 1, width |-> 2, height |-> 2, rotation |-> 90] }

\* the editor is open on one image that has been edited twice
InitStages ==
    /\ \E a \in StageAdjustments : \E c \in StageCrops :
         images =
            updateCrop(
                updateAdjustments(
                    << [createImageData(1, FileImage(1)) EXCEPT !.previewImage = FileImage(2)] >>,
                    1, a),
                1, c)
    /\ currentImageId = 1
    /\ nextId = 1
    /\ lastOp = "updateCrop"
    /\ workerInstance = 0
    /\ workerReady = FALSE
    /\ workers = << >>
    /\ tasks = << >>
    /\ effectTask = 0
    /\ effectDeps = [previewImage |-> NoImage,
                     adjustments |-> DEFAULT_ADJUSTMENTS, crop |-> DEFAULT_CROP]
    /\ applied = NoCall

NextStages ==
    \/ EffectRun(MaxSoloTasks)
    \/ HandleExport(MaxSoloTasks)
    \/ \E t \in 1..Len(tasks) : TaskStep(t)
    \/ \E w \in 1..Len(workers) : WorkerStep(w)

SpecStages == InitStages /\ [][NextStages]_vars

\* the bytes of a file that decodes to width x height pixels
SizedImage(n, width, height) ==
    [NoImage EXCEPT !.file = n, !.width = width, !.height = height]

\* the crop rectangles CropTool applies: inside the source, larger than it,
\* outside it, and of zero or negative width or height
GeometryRects ==
    { [x |-> 0, y |-> 0, width |-> 2, height |-> 1],
      [x |-> 1, y |-> 1, width |-> 1, height |-> 2],
      [x |-> 0, y |-> 0, width |-> 5, height |-> 4],
      [x |-> 7, y |-> 0, width |-> 1, height |-> 1],
      [x |-> 0, y |-> 0, width |-> 0, height |-> 0],
      [x |-> 0, y |-> 0, width |-> 0, height |-> 2],
      [x |-> 0, y |-> 0, width |-> 2, height |-> 0],
      [x |-> 1, y |-> 0, width |-> -1, height |-> 2] }

GeometryRotations == { 0, 90, 360 }

\* the editor is open on one image of any size up to MaxSide, cropped once
InitGeometry ==
    /\ \E width \in 1..MaxSide : \E height \in 1..MaxSide :
       \E rect \in GeometryRects : \E rotation \in GeometryRotations :
         images =
            updateCrop(
                << createImageData(1, SizedImage(1, width, height)) >>,
                1, [x |-> rect.x, y |-> rect.y, width |-> rect.width,
                    height |-> rect.height, rotation |-> rotation])
    /\ currentImageId = 1
    /\ nextId = 1
    /\ lastOp = "updateCrop"
    /\ workerInstance = 0
    /\ workerReady = FALSE
    /\ workers = << >>
    /\ tasks = << >>
    /\ effectTask = 0
    /\ effectDeps = Deps
    /\ applied = NoCall

\* exports of the image at full resolution
NextGeometry ==
    \/ HandleExport(MaxSoloTasks)
    \/ \E t \in 1..Len(tasks) :
        \/ ImgLoad(t)
        \/ ImgError(t)
        \/ Geometry(t)
        \/ PostPixels(t)
        \/ PutPixels(t)
        \/ Resolve(t)
    \/ \E w \in 1..Len(workers) : WorkerStep(w)

SpecGeometry == InitGeometry /\ [][NextGeometry]_vars

\* exports, with getImageWorker and terminateWorker called at any time
NextWorker ==
    \/ HandleExport(MaxTasks)
    \/ \E t \in 1..Len(tasks) :
        \/ ImgLoad(t)
        \/ Geometry(t)
        \/ PostPixels(t)
    \/ \E w \in 1..Len(workers) :
        \/ WorkerOnMessage(w)
        \/ Deliver(w)
    \/ GetImageWorker
    \/ TerminateWorker

SpecWorker == InitPipeline /\ [][NextWorker]_vars

(***************************************************************************)
(* The pixel functions of the worker script.  Numbers that are fractions   *)
(* in the code are kept as exact quotients of integers, so a result differs*)
(* from the code's double arithmetic only where the exact value ties.      *)
(* A curve point is [x, y], or [x, y, den] for the point (x/den, y/den).   *)
(***************************************************************************)
Den(point) == IF "den" \in DOMAIN point THEN point.den ELSE 1

\* a.x - b.x <= 0
XNotAfter(a, b) == a.x * Den(b) <= b.x * Den(a)

\* sorted, with point put after every point whose x is not greater
RECURSIVE InsertByX(_, _)
InsertByX(sorted, point) ==
    IF sorted = << >> THEN << point >>
    ELSE IF XNotAfter(Head(sorted), point)
         THEN << Head(sorted) >> \o InsertByX(Tail(sorted), point)
         ELSE << point >> \o sorted

\* [...points].sort((a, b) => a.x - b.x), a stable sort
RECURSIVE SortByX(_)
SortByX(points) ==
    IF points = << >> THEN << >>
    ELSE InsertByX(SortByX(SubSeq(points, 1, Len(points) - 1)), points[Len(points)])

\* const clamp = (value) => Math.max(0, Math.min(255, value))
clamp(value) == IF value < 0 THEN 0 ELSE IF value > 255 THEN 255 ELSE value

\* Math.round(num / den), for den > 0
Round(num, den) == (2 * num + den) \div (2 * den)

\* the index j of the first segment with sorted[j].x <= i/steps <= sorted[j+1].x,
\* or 0 when the loop finds none
Segment(sorted, i, steps) ==
    LET found ==
            { j \in 1..(Len(sorted) - 1) :
                /\ i * Den(sorted[j]) >= steps * sorted[j].x
                /\ i * Den(sorted[j + 1]) <= steps * sorted[j + 1].x }
    IN IF found = {} THEN 0 ELSE CHOOSE j \in found : \A k \in found : j <= k

\* lut[i] of createLUT, where x = i / steps
LUTEntry(sorted, i, steps) ==
    LET j == Segment(sorted, i, steps)
        p0 == IF j = 0 THEN sorted[1] ELSE sorted[j]
        p1 == IF j = 0 THEN sorted[Len(sorted)] ELSE sorted[j + 1]
        d0 == Den(p0)
        d1 == Den(p1)
        \* range = p1.x - p0.x, times d0 * d1
        range == p1.x * d0 - p0.x * d1
    IN IF range = 0
       THEN clamp(Round(255 * p0.y, d0))
       ELSE \* y * 255 = num / den, with steps = 255 where the code has it
            LET num == 255 * (p0.y * range * steps
                              + (i * d0 - steps * p0.x) * (p1.y * d0 - p0.y * d1))
                den == d0 * range * steps
            IN clamp(Round(num, den))

\* createLUT with x = i / 256
createLUT_over256(points) ==
    IF points = << >>
    THEN [thrown |-> TRUE, lut |-> << >>]
    ELSE [thrown |-> FALSE,
          lut |-> [i \in 0..255 |-> LUTEntry(SortByX(points), i, 256)]]

\* createLUT(points): with no point sorted[0] is undefined and p0.x throws a
\* TypeError; otherwise the table of 256 entries
createLUT(points) ==
    IF points = << >>
    THEN [thrown |-> TRUE, lut |-> << >>]
    ELSE [thrown |-> FALSE,
          lut |-> [i \in 0..255 |-> LUTEntry(SortByX(points), i, 255)]]

\* applyCurves that applies the master curve before the channel curve
applyCurves_masterFirst(data, curves) ==
    LET masterLUT == createLUT(curves.master)
        redLUT == createLUT(curves.red)
        greenLUT == createLUT(curves.green)
        blueLUT == createLUT(curves.blue)
    IN IF masterLUT.thrown \/ redLUT.thrown \/ greenLUT.thrown \/ blueLUT.thrown
       THEN [thrown |-> TRUE, data |-> data]
       ELSE [thrown |-> FALSE,
             data |-> [i \in 1..Len(data) |->
                          [r |-> redLUT.lut[masterLUT.lut[data[i].r]],
                           g |-> greenLUT.lut[masterLUT.lut[data[i].g]],
                           b |-> blueLUT.lut[masterLUT.lut[data[i].b]],
                           a |-> data[i].a]]]

\* applyCurves(data, curves) on the pixels data, each [r, g, b, a]: the
\* channel curve, then the master curve; alpha is not touched
applyCurves(data, curves) ==
    LET masterLUT == createLUT(curves.master)
        redLUT == createLUT(curves.red)
        greenLUT == createLUT(curves.green)
        blueLUT == createLUT(curves.blue)
    IN IF masterLUT.thrown \/ redLUT.thrown \/ greenLUT.thrown \/ blueLUT.thrown
       THEN [thrown |-> TRUE, data |-> data]
       ELSE [thrown |-> FALSE,
             data |-> [i \in 1..Len(data) |->
                          [r |-> masterLUT.lut[redLUT.lut[data[i].r]],
                           g |-> masterLUT.lut[greenLUT.lut[data[i].g]],
                           b |-> masterLUT.lut[blueLUT.lut[data[i].b]],
                           a |-> data[i].a]]]

\* The channel values of applyColorAdjustments are kept in units of 1/Unit.
Unit == 10000

RECURSIVE GCD(_, _)
GCD(m, n) == IF n = 0 THEN m ELSE GCD(n, m % n)

\* value * num / den rounded down, for den > 0, computed without leaving
\* 32 bits
Scale(value, num, den) ==
    LET g == GCD(IF num < 0 THEN -num ELSE num, den)
        n == num \div g
        d == den \div g
    IN (value \div d) * n + ((value % d) * n) \div d

\* value * (n1 * n2) / (d1 * d2), the quotient reduced first, for positive
\* n1, n2, d1 and d2
ScaleTwice(value, n1, n2, d1, d2) ==
    LET ga == GCD(n1, d1)
        gb == GCD(n2, d2)
        gc == GCD(n1 \div ga, d2 \div gb)
        gd == GCD(n2 \div gb, d1 \div ga)
    IN Scale(Scale(value, (n1 \div ga) \div gc, (d1 \div ga) \div gd),
             (n2 \div gb) \div gd, (d2 \div gb) \div gc)

\* Math.pow(2, exposure / 100) as a quotient: exact for whole stops, and to
\* 1/Unit for half stops
exposureMultiplier(exposure) ==
    CASE exposure = 0 -> [num |-> 1, den |-> 1]
      [] exposure = 100 -> [num |-> 2, den |-> 1]
      [] exposure = -100 -> [num |-> 1, den |-> 2]
      [] exposure = 50 -> [num |-> 14142, den |-> 10000]
      [] exposure = -50 -> [num |-> 7071, den |-> 10000]

\* the store of a number into a Uint8ClampedArray: clamped, then rounded to
\* the nearest integer, a tie to the even one
ToUint8Clamped(value) ==
    LET whole == value \div Unit
        part == value % Unit
    IN IF value <= 0 THEN 0
       ELSE IF value >= 255 * Unit THEN 255
       ELSE IF 2 * part > Unit THEN whole + 1
       ELSE IF 2 * part < Unit THEN whole
       ELSE IF whole % 2 = 0 THEN whole ELSE whole + 1

\* one statement after another: value is computed once, and Op reads it
Then(value, Op(_)) == CHOOSE out \in { Op(v) : v \in { value } } : TRUE

\* one iteration of the loop of applyColorAdjustments, on the pixel p: each
\* step reads the r, g and b the step before it left
AdjustPixel(p, adjustments) ==
    LET em == exposureMultiplier(adjustments.exposure)
        contrast == adjustments.contrast
        wb == adjustments.whiteBalance
        ContrastOf(value) ==
            ScaleTwice(value - 128 * Unit, 259, contrast + 255, 255, 259 - contrast)
                + 128 * Unit
    IN Then([r |-> p.r * Unit, g |-> p.g * Unit, b |-> p.b * Unit, a |-> p.a],
        LAMBDA c0 :
       \* 1. exposure
       Then([r |-> Scale(c0.r, em.num, em.den),
             g |-> Scale(c0.g, em.num, em.den),
             b |-> Scale(c0.b, em.num, em.den)],
        LAMBDA c1 :
       \* 2. contrast: contrastFactor = (259 * (contrast + 255)) / (255 * (259 - contrast))
       Then([r |-> ContrastOf(c1.r), g |-> ContrastOf(c1.g), b |-> ContrastOf(c1.b)],
        LAMBDA c2 :
       \* 3. temperature and tint: rTemp, gTint, bTemp
       Then([r |-> IF adjustments.temperature > 0
                   THEN Scale(c2.r, 1000 + 4 * adjustments.temperature, 1000) ELSE c2.r,
             g |-> Scale(c2.g, 1000 + 2 * adjustments.tint, 1000),
             b |-> IF adjustments.temperature < 0
                   THEN Scale(c2.b, 1000 - 4 * adjustments.temperature, 1000) ELSE c2.b],
        LAMBDA c3 :
       \* 4. saturation
       Then(Scale(c3.r, 3086, 10000) + Scale(c3.g, 6094, 10000) + Scale(c3.b, 820, 10000),
        LAMBDA gray :
       Then([r |-> gray + Scale(c3.r - gray, 100 + adjustments.saturation, 100),
             g |-> gray + Scale(c3.g - gray, 100 + adjustments.saturation, 100),
             b |-> gray + Scale(c3.b - gray, 100 + adjustments.saturation, 100)],
        LAMBDA c4 :
       \* 5. white balance
       Then([r |-> IF wb # 0 THEN Scale(c4.r, 10000 - 15 * wb, 10000) ELSE c4.r,
             g |-> IF wb # 0 THEN Scale(c4.g, 1000 - wb, 1000) ELSE c4.g,
             b |-> IF wb # 0 THEN Scale(c4.b, 1000 + 3 * wb, 1000) ELSE c4.b],
        LAMBDA c5 :
       \* 6. highlights and shadows, both on the lum computed before them
       Then((c5.r + c5.g + c5.b) \div 3,
        LAMBDA lum :
       Then(IF lum > 128 * Unit /\ adjustments.highlights # 0
            THEN Unit + Scale(lum - 128 * Unit, adjustments.highlights, 200 * 128)
            ELSE Unit,
        LAMBDA up :
       Then([r |-> Scale(c5.r, up, Unit), g |-> Scale(c5.g, up, Unit),
             b |-> Scale(c5.b, up, Unit)],
        LAMBDA c6 :
       Then(IF lum < 128 * Unit /\ adjustments.shadows # 0
            THEN Unit + Scale(128 * Unit - lum, adjustments.shadows, 200 * 128)
            ELSE Unit,
        LAMBDA down :
       [r |-> ToUint8Clamped(Scale(c6.r, down, Unit)),
        g |-> ToUint8Clamped(Scale(c6.g, down, Unit)),
        b |-> ToUint8Clamped(Scale(c6.b, down, Unit)),
        a |-> c0.a])))))))))))

\* applyColorAdjustments that also scales alpha by the exposure
applyColorAdjustments_scalesAlpha(data, adjustments) ==
    [i \in 1..Len(data) |->
        [AdjustPixel(data[i], adjustments) EXCEPT !.a = clamp(2 * data[i].a)]]

\* applyColorAdjustments(data, adjustments)
applyColorAdjustments(data, adjustments) ==
    [i \in 1..Len(data) |-> AdjustPixel(data[i], adjustments)]

\* A raster is [width, height, data], data its pixels row by row.  A kernel
\* is [weights, den] for the numbers weights[k] / den.
\* new Uint8ClampedArray(...): the pixels as a stored array
Uint8ClampedArray(pixels) == pixels \o << >>

PixelAt(raster, x, y) == raster.data[y * raster.width + x + 1]

\* Math.round(Math.sqrt(length))
Side(length) ==
    CHOOSE k \in 0..length :
        (2 * k - 1) * (2 * k - 1) <= 4 * length /\ 4 * length < (2 * k + 1) * (2 * k + 1)

\* the store of num / den into a Uint8ClampedArray, for den > 0
ToUint8ClampedQuotient(num, den) ==
    LET whole == num \div den
        part == num % den
    IN IF num <= 0 THEN 0
       ELSE IF num >= 255 * den THEN 255
       ELSE IF 2 * part > den THEN whole + 1
       ELSE IF 2 * part < den THEN whole
       ELSE IF whole % 2 = 0 THEN whole ELSE whole + 1

RECURSIVE Sum(_, _)
Sum(f, S) ==
    IF S = {} THEN 0
    ELSE LET e == CHOOSE e \in S : TRUE IN f[e] + Sum(f, S \ {e})

\* the pixel of the output at (x, y) with the sum divided by the weights of
\* the cells that are inside the raster
ConvolvePixel_renormalized(raster, kernel, opaque, x, y, halfSide) ==
    LET side == Side(Len(kernel.weights))
        cells ==
            { c \in (0..(side - 1)) \X (0..(side - 1)) :
                /\ y + c[1] - halfSide >= 0 /\ y + c[1] - halfSide < raster.height
                /\ x + c[2] - halfSide >= 0 /\ x + c[2] - halfSide < raster.width }
        src(c) == PixelAt(raster, x + c[2] - halfSide, y + c[1] - halfSide)
        wt(c) == kernel.weights[c[1] * side + c[2] + 1]
        used == Sum([c \in cells |-> wt(c)], cells)
        all == Sum([c \in (0..(side - 1)) \X (0..(side - 1)) |-> wt(c)],
                   (0..(side - 1)) \X (0..(side - 1)))
        den == IF used > 0 /\ all > 0 THEN used * kernel.den ELSE all * kernel.den
        r == Sum([c \in cells |-> src(c).r * wt(c)], cells) * all
        g == Sum([c \in cells |-> src(c).g * wt(c)], cells) * all
        b == Sum([c \in cells |-> src(c).b * wt(c)], cells) * all
        a == Sum([c \in cells |-> src(c).a * wt(c)], cells) * all
    IN IF all <= 0
       THEN [r |-> 0, g |-> 0, b |-> 0, a |-> 255]
       ELSE [r |-> ToUint8ClampedQuotient(r, den),
             g |-> ToUint8ClampedQuotient(g, den),
             b |-> ToUint8ClampedQuotient(b, den),
             a |-> IF opaque THEN 255 ELSE ToUint8ClampedQuotient(a, den)]

\* the pixel of the output at (x, y): the weighted sum over the cells of the
\* kernel whose source pixel is inside the raster, shifted by halfSide
ConvolvePixel(raster, kernel, opaque, x, y, halfSide) ==
    LET side == Side(Len(kernel.weights))
        cells ==
            { c \in (0..(side - 1)) \X (0..(side - 1)) :
                /\ y + c[1] - halfSide >= 0 /\ y + c[1] - halfSide < raster.height
                /\ x + c[2] - halfSide >= 0 /\ x + c[2] - halfSide < raster.width }
        src(c) == PixelAt(raster, x + c[2] - halfSide, y + c[1] - halfSide)
        wt(c) == kernel.weights[c[1] * side + c[2] + 1]
        r == Sum([c \in cells |-> src(c).r * wt(c)], cells)
        g == Sum([c \in cells |-> src(c).g * wt(c)], cells)
        b == Sum([c \in cells |-> src(c).b * wt(c)], cells)
        a == Sum([c \in cells |-> src(c).a * wt(c)], cells)
    IN [r |-> ToUint8ClampedQuotient(r, kernel.den),
        g |-> ToUint8ClampedQuotient(g, kernel.den),
        b |-> ToUint8ClampedQuotient(b, kernel.den),
        a |-> IF opaque THEN 255 ELSE ToUint8ClampedQuotient(a, kernel.den)]

\* applyConvolution with the kernel anchored at its top left cell
applyConvolution_notCentred(imageData, kernel, opaque) ==
    [width |-> imageData.width, height |-> imageData.height,
     data |-> Uint8ClampedArray(
                  [i \in 1..(imageData.width * imageData.height) |->
                      ConvolvePixel(imageData, kernel, opaque,
                                    (i - 1) % imageData.width, (i - 1) \div imageData.width,
                                    0)])]

\* applyConvolution(imageData, kernel, opaque = true)
applyConvolution(imageData, kernel, opaque) ==
    [width |-> imageData.width, height |-> imageData.height,
     data |-> Uint8ClampedArray(
                  [i \in 1..(imageData.width * imageData.height) |->
                      ConvolvePixel(imageData, kernel, opaque,
                                    (i - 1) % imageData.width, (i - 1) \div imageData.width,
                                    Side(Len(kernel.weights)) \div 2)])]

\* the kernels of self.onmessage: val = 1/9, and s = adjustments.sharpness / 100
BlurKernel == [weights |-> << 1, 1, 1, 1, 1, 1, 1, 1, 1 >>, den |-> 9]

SharpenKernel(sharpness) ==
    [weights |-> << 0, -sharpness, 0,
                    -sharpness, 100 + 4 * sharpness, -sharpness,
                    0, -sharpness, 0 >>,
     den |-> 100]

\* the try block of self.onmessage on the pixels of a request: the raster of
\* the success response, or thrown when a stage throws
Render(imageData, adjustments) ==
    LET coloured == applyColorAdjustments(imageData.data, adjustments)
        curved == IF "curves" \in DOMAIN adjustments
                  THEN applyCurves(coloured, adjustments.curves)
                  ELSE [thrown |-> FALSE, data |-> coloured]
    IN IF curved.thrown
       THEN [thrown |-> TRUE, imageData |-> imageData]
       ELSE [thrown |-> FALSE,
             imageData |->
                 Then([imageData EXCEPT !.data = Uint8ClampedArray(curved.data)],
                  LAMBDA processedImageData :
                 Then(IF adjustments.blur > 0
                      THEN applyConvolution(processedImageData, BlurKernel, TRUE)
                      ELSE processedImageData,
                  LAMBDA blurred :
                 IF adjustments.sharpness > 0
                 THEN applyConvolution(blurred, SharpenKernel(adjustments.sharpness), TRUE)
                 ELSE blurred))]

(***************************************************************************)
(* The rotation-only branch of processImage on pixels.  Cosines and sines  *)
(* are kept in units of 1/Milli; a canvas starts transparent black.        *)
(***************************************************************************)
Milli == 1000

\* Math.cos(rad) and Math.sin(rad) for rad = rotation * Math.PI / 180
Cos(rotation) ==
    CASE rotation = 0 -> 1000
      [] rotation = 30 -> 866
      [] rotation = 45 -> 707
      [] rotation = 90 -> 0
      [] rotation = 180 -> -1000

Sin(rotation) ==
    CASE rotation = 0 -> 0
      [] rotation = 30 -> 500
      [] rotation = 45 -> 707
      [] rotation = 90 -> 1000
      [] rotation = 180 -> 0

Abs(n) == IF n < 0 THEN -n ELSE n

\* rotatedWidth and rotatedHeight, in units of 1/Milli
RotatedSize(src, rotation) ==
    [width |-> src.width * Abs(Cos(rotation)) + src.height * Abs(Sin(rotation)),
     height |-> src.width * Abs(Sin(rotation)) + src.height * Abs(Cos(rotation))]

\* The point of the source drawn at the canvas point (x2 / 2, y2 / 2) by
\* translate(rotatedWidth / 2, rotatedHeight / 2), rotate(rad),
\* translate(-naturalWidth / 2, -naturalHeight / 2), drawImage(img, 0, 0):
\* its coordinates, in units of 1 / (2 * Milli * Milli)
SourcePoint(src, rotation, x2, y2) ==
    LET size == RotatedSize(src, rotation)
        dx == Milli * x2 - size.width
        dy == Milli * y2 - size.height
    IN [x |-> dx * Cos(rotation) + dy * Sin(rotation) + src.width * Milli * Milli,
        y |-> dy * Cos(rotation) - dx * Sin(rotation) + src.height * Milli * Milli]

\* the canvas pixel (x, y) lies wholly beyond one edge of the rotated source
IsBackground(src, rotation, x, y) ==
    LET corners ==
            { SourcePoint(src, rotation, 2 * cx, 2 * cy) :
                cx \in { x, x + 1 }, cy \in { y, y + 1 } }
    IN \/ \A c \in corners : c.x < 0
       \/ \A c \in corners : c.x > 2 * src.width * Milli * Milli
       \/ \A c \in corners : c.y < 0
       \/ \A c \in corners : c.y > 2 * src.height * Milli * Milli

\* the source pixel under the centre of the canvas pixel (x, y)
Sample(src, rotation, x, y) ==
    LET at == SourcePoint(src, rotation, 2 * x + 1, 2 * y + 1)
        sx == at.x \div (2 * Milli * Milli)
        sy == at.y \div (2 * Milli * Milli)
        inX == IF sx < 0 THEN 0 ELSE IF sx >= src.width THEN src.width - 1 ELSE sx
        inY == IF sy < 0 THEN 0 ELSE IF sy >= src.height THEN src.height - 1 ELSE sy
    IN PixelAt(src, inX, inY)

Transparent == [r |-> 0, g |-> 0, b |-> 0, a |-> 0]

\* ctx.getImageData(0, 0, rotatedWidth, rotatedHeight) after the rotated
\* source is drawn on the cleared canvas, whose size is the rotated size
\* truncated to whole pixels
RotatedImageData(src, rotation) ==
    LET width == RotatedSize(src, rotation).width \div Milli
        height == RotatedSize(src, rotation).height \div Milli
    IN [width |-> width, height |-> height,
        data |-> [i \in 1..(width * height) |->
                     IF IsBackground(src, rotation, (i - 1) % width, (i - 1) \div width)
                     THEN Transparent
                     ELSE Sample(src, rotation, (i - 1) % width, (i - 1) \div width)]]

\* the pixels of the canvas that the rotation introduced
Background(src, rotation) ==
    LET width == RotatedSize(src, rotation).width \div Milli
        height == RotatedSize(src, rotation).height \div Milli
    IN { i \in 1..(width * height) :
           IsBackground(src, rotation, (i - 1) % width, (i - 1) \div width) }

(***************************************************************************)
(* The crop-only branch of processImage on pixels: drawImage with a source *)
(* rectangle of the size of the canvas, so one source pixel per canvas     *)
(* pixel.  drawImage clips the source rectangle to the image and the       *)
(* destination rectangle with it; the canvas was cleared before.           *)
(***************************************************************************)
\* the source pixel that the canvas pixel (x, y) shows
SourceCell(crop, x, y) == [x |-> crop.x + x, y |-> crop.y + y]

InSource(src, cell) ==
    /\ cell.x >= 0 /\ cell.x < src.width
    /\ cell.y >= 0 /\ cell.y < src.height

\* drawImage that reads the whole source rectangle
CropSampled_unclipped(src, crop) ==
    { SourceCell(crop, x, y) : x \in 0..(crop.width - 1), y \in 0..(crop.height - 1) }

\* the source coordinates drawImage(img, crop.x, crop.y, crop.width,
\* crop.height, 0, 0, crop.width, crop.height) reads
CropSampled(src, crop) ==
    { cell \in { SourceCell(crop, x, y) :
                   x \in 0..(crop.width - 1), y \in 0..(crop.height - 1) } :
        InSource(src, cell) }

\* ctx.getImageData(0, 0, width, height) after the crop is drawn
CroppedImageData(src, crop) ==
    [width |-> crop.width, height |-> crop.height,
     data |-> Uint8ClampedArray(
                 [i \in 1..(crop.width * crop.height) |->
                     LET cell == SourceCell(crop, (i - 1) % crop.width,
                                            (i - 1) \div crop.width)
                     IN IF InSource(src, cell)
                        THEN PixelAt(src, cell.x, cell.y)
                        ELSE Transparent])]

(***************************************************************************)
(* The pixel functions applied to inputs of bounded size.                  *)
(***************************************************************************)
\* the curve points the curve editor can hold, on a grid of halves
CurvePoints == { [x |-> x, y |-> y, den |-> 2] : x \in 0..2, y \in 0..2 }

RECURSIVE Curves(_)
Curves(length) ==
    IF length = 0 THEN { << >> }
    ELSE Curves(length - 1)
            \cup { Append(points, point) :
                     points \in { c \in Curves(length - 1) : Len(c) = length - 1 },
                     point \in CurvePoints }

\* curves of three points that leave both ends of 0..1 uncovered, on a grid
\* of quarters
InsetCurves ==
    { << [x |-> 1, y |-> a, den |-> 4], [x |-> 2, y |-> b, den |-> 4],
         [x |-> 3, y |-> c, den |-> 4] >> : a \in { 0, 2, 4 }, b \in { 0, 2, 4 }, c \in { 0, 2, 4 } }

CurveInputs == Curves(MaxPoints) \cup { IdentityCurve } \cup InsetCurves

Levels == { 0, 1, 64, 127, 128, 254, 255 }

PixelInputs ==
    { [r |-> r, g |-> g, b |-> b, a |-> a] :
        r \in Levels, g \in Levels, b \in Levels, a \in { 0, 200 } }

\* a curve that halves, and one that lifts the lower end to a half
HalvingCurve == << [x |-> 0, y |-> 0, den |-> 2], [x |-> 2, y |-> 1, den |-> 2] >>

LiftingCurve == << [x |-> 0, y |-> 1, den |-> 2], [x |-> 2, y |-> 2, den |-> 2] >>

ColourInputs ==
    { DEFAULT_ADJUSTMENTS, [DEFAULT_ADJUSTMENTS EXCEPT !.exposure = 100],
      [DEFAULT_ADJUSTMENTS EXCEPT
          !.curves = [master |-> LiftingCurve, red |-> HalvingCurve,
                      green |-> IdentityCurve, blue |-> LiftingCurve]] }

\* a raster of width x height pixels with values that differ from pixel to pixel
PatternRaster(width, height, seed) ==
    [width |-> width, height |-> height,
     data |-> [i \in 1..(width * height) |->
                  [r |-> (seed * 37 * i) % 256, g |-> (seed * 91 + 53 * i) % 256,
                   b |-> (255 - seed * i) % 256, a |-> IF (i + seed) % 3 = 0 THEN 100 ELSE 255]]]

RasterInputs ==
    { PatternRaster(width, height, seed) :
        width \in 1..(MaxSide + 1), height \in 1..(MaxSide + 1), seed \in 1..3 }

\* a raster whose pixels all have the channel value v
UniformRaster(width, height, v) ==
    [width |-> width, height |-> height,
     data |-> [i \in 1..(width * height) |-> [r |-> v, g |-> v, b |-> v, a |-> v]]]

UniformInputs ==
    { UniformRaster(width, height, v) :
        width \in 1..(MaxSide + 1), height \in 1..(MaxSide + 1), v \in { 0, 90, 100, 255 } }

IdentityKernel == [weights |-> << 0, 0, 0, 0, 1, 0, 0, 0, 0 >>, den |-> 1]

KernelInputs == { IdentityKernel, BlurKernel, SharpenKernel(50) }

RenderInputs ==
    { Spread(DEFAULT_ADJUSTMENTS, a) : a \in StageAdjustments }

CreateLUT ==
    /\ applied = NoCall
    /\ \E points \in CurveInputs :
         applied' = [fn |-> "createLUT", points |-> points, out |-> createLUT(points)]
    /\ UNCHANGED << storeVars, workerVars, tasks, effectTask, effectDeps >>

\* applyColorAdjustments, then applyCurves, as self.onmessage calls them
ApplyColorAndCurves ==
    /\ applied = NoCall
    /\ \E pixel \in PixelInputs : \E adjustments \in ColourInputs :
         applied' = [fn |-> "applyCurves", data |-> << pixel >>,
                     adjustments |-> adjustments,
                     coloured |-> applyColorAdjustments(<< pixel >>, adjustments),
                     out |-> applyCurves(applyColorAdjustments(<< pixel >>, adjustments),
                                         adjustments.curves)]
    /\ UNCHANGED << storeVars, workerVars, tasks, effectTask, effectDeps >>

ApplyConvolution ==
    /\ applied = NoCall
    /\ \E imageData \in RasterInputs \cup UniformInputs :
       \E kernel \in KernelInputs : \E opaque \in BOOLEAN :
         applied' = [fn |-> "applyConvolution", imageData |-> imageData,
                     kernel |-> kernel, opaque |-> opaque,
                     out |-> applyConvolution(imageData, kernel, opaque)]
    /\ UNCHANGED << storeVars, workerVars, tasks, effectTask, effectDeps >>

\* processImage with a rotation and no crop: the rotated pixels go through
\* the worker and are put back on the canvas
ProcessRotated ==
    /\ applied = NoCall
    /\ \E src \in RasterInputs : \E rotation \in { 30, 45, 90 } :
       \E adjustments \in RenderInputs :
         applied' = [fn |-> "processImage", src |-> src, rotation |-> rotation,
                     adjustments |-> adjustments,
                     background |-> Background(src, rotation),
                     out |-> Render(RotatedImageData(src, rotation), adjustments)]
    /\ UNCHANGED << storeVars, workerVars, tasks, effectTask, effectDeps >>

\* crops with a positive size and a rotation that is a multiple of 360:
\* inside the source, across its edges and outside it
PixelCrops ==
    { [x |-> x, y |-> y, width |-> width, height |-> height, rotation |-> rotation] :
        x \in { -1, 0, 1 }, y \in { -1, 0 }, width \in { 1, MaxSide + 2 },
        height \in { 1, MaxSide }, rotation \in { 0, 360 } }

\* processImage with a crop and no rotation, up to the pixels it posts
ProcessCropped ==
    /\ applied = NoCall
    /\ \E src \in RasterInputs : \E crop \in PixelCrops :
         /\ hasCrop(crop) /\ ~hasRotation(crop)
         /\ applied' = [fn |-> "crop", src |-> src, crop |-> crop,
                        sampled |-> CropSampled(src, crop),
                        out |-> CroppedImageData(src, crop)]
    /\ UNCHANGED << storeVars, workerVars, tasks, effectTask, effectDeps >>

NextPixels ==
    \/ CreateLUT
    \/ ApplyColorAndCurves
    \/ ApplyConvolution
    \/ ProcessRotated
    \/ ProcessCropped

SpecPixels == Init /\ [][NextPixels]_vars

(***************************************************************************)
(* Properties of the undo/redo history, checked under SpecStore.           *)
(***************************************************************************)
\* ImageEditor's canUndo and canRedo
canUndo(img) == img.historyIndex >= 0
canRedo(img) == img.historyIndex < Len(img.history) - 1

Snapshot(img) == [adjustments |-> img.adjustments, crop |-> img.crop]

\* C2: wherever undo is enabled, undo() followed by redo() leaves the current
\* image's adjustments and crop as they were before the undo().
C2_UndoThenRedoRestores ==
    (CurrentExists /\ canUndo(Current)) =>
        LET after == redo(undo(images, currentImageId), currentImageId)
        IN Snapshot(getCurrentImage(after, currentImageId)) = Snapshot(Current)

\* C3: the historyIndex of every image is an integer in [-1, history.length - 1].
C3_HistoryIndexInRange ==
    \A i \in 1..Len(images) :
        images[i].historyIndex \in -1..(Len(images[i].history) - 1)

\* an image undone down to the bottom of a non-empty history
C3_Witness ==
    /\ lastOp = "undo"
    /\ CurrentExists
    /\ Current.historyIndex = -1
    /\ Len(Current.history) = MaxHistory

C4_Committed ==
    CurrentExists =>
        /\ CurrentAfter.history =
               Slice(Current.history, Current.historyIndex + 1)
                   \o << Snapshot(Current) >>
        /\ CurrentAfter.historyIndex = Len(CurrentAfter.history) - 1
        /\ ~canRedo(CurrentAfter)

\* C4: updateAdjustments and updateCrop replace history by its first
\* historyIndex+1 entries followed by the pre-mutation (adjustments, crop), and
\* set historyIndex to the new last index, so that redo is disabled.
C4_MutationCommitsSnapshot ==
    [][(UpdateAdjustments \/ UpdateCrop) => C4_Committed]_vars

\* a mutation has just committed an entry on top of an earlier one
C4_Witness ==
    /\ lastOp \in { "updateAdjustments", "updateCrop" }
    /\ CurrentExists
    /\ Len(Current.history) >= 2
    /\ Current.historyIndex = Len(Current.history) - 1

C5_Undone ==
    IF ~CurrentExists \/ ~canUndo(Current)
    THEN images' = images /\ currentImageId' = currentImageId
    ELSE /\ Snapshot(CurrentAfter) = At(Current.history, Current.historyIndex)
         /\ CurrentAfter.historyIndex = Current.historyIndex - 1
         /\ CurrentAfter.history = Current.history

\* C5: undo() changes nothing when historyIndex < 0; otherwise it restores
\* history[historyIndex], decrements historyIndex by one and leaves the
\* history sequence as it was.
C5_UndoRestoresEntry == [][Undo => C5_Undone]_vars

\* undo has stepped back from the top of a history of two entries
C5_Witness ==
    /\ lastOp = "undo"
    /\ CurrentExists
    /\ Len(Current.history) >= 2
    /\ Current.historyIndex = Len(Current.history) - 2
    /\ Snapshot(Current) = At(Current.history, Current.historyIndex + 1)

C6_Redone ==
    IF ~CurrentExists \/ ~canRedo(Current)
    THEN images' = images /\ currentImageId' = currentImageId
    ELSE /\ CurrentAfter.historyIndex = Current.historyIndex + 1
         /\ Snapshot(CurrentAfter) = At(Current.history, CurrentAfter.historyIndex)
         /\ CurrentAfter.history = Current.history

\* C6: redo() changes nothing when historyIndex >= history.length - 1;
\* otherwise it increments historyIndex by one, restores the entry at the new
\* historyIndex and leaves the history sequence as it was.
C6_RedoRestoresEntry == [][Redo => C6_Redone]_vars

\* redo has stepped forward to an entry below the top of the history
C6_Witness ==
    /\ lastOp = "redo"
    /\ CurrentExists
    /\ Current.historyIndex >= 0
    /\ canRedo(Current)
    /\ Snapshot(Current) = At(Current.history, Current.historyIndex)

\* the calls of updateAdjustments and updateCrop the panels make
Mutations ==
    { [fn |-> "updateAdjustments", updates |-> u] : u \in AdjustmentUpdates }
        \cup { [fn |-> "updateCrop", updates |-> u] : u \in CropUpdates }

Mutate(imgs, cid, m) ==
    IF m.fn = "updateAdjustments"
    THEN updateAdjustments(imgs, cid, m.updates)
    ELSE updateCrop(imgs, cid, m.updates)

\* undo, called once for each entry of earlier, restores these snapshots
\* from the last one down to the first
RECURSIVE UndoRestores(_, _, _)
UndoRestores(imgs, cid, earlier) ==
    earlier = << >> \/
        \A undone \in { undo(imgs, cid) } :
            /\ Snapshot(getCurrentImage(undone, cid)) = earlier[Len(earlier)]
            /\ UndoRestores(undone, cid, SubSeq(earlier, 1, Len(earlier) - 1))

\* imgs was reached from a state S0 by mutations whose pre-mutation
\* snapshots are earlier: the undos restore them, also after up to n more
\* mutations
RECURSIVE UndoRestoresAfter(_, _, _, _)
UndoRestoresAfter(imgs, cid, earlier, n) ==
    /\ UndoRestores(imgs, cid, earlier)
    /\ n > 0 =>
          \A m \in Mutations : \A mutated \in { Mutate(imgs, cid, m) } :
              UndoRestoresAfter(mutated, cid,
                                Append(earlier, Snapshot(getCurrentImage(imgs, cid))),
                                n - 1)

\* the mutations after the first that keep the history of the current image
\* within MaxHistory entries
MoreMutations ==
    IF Current.historyIndex + 2 < MaxHistory
    THEN MaxHistory - Current.historyIndex - 2
    ELSE 0

\* C27: after k >= 1 calls of updateAdjustments and updateCrop in a row from
\* a state S0, k calls of undo restore the adjustments and crop of S0, the
\* j-th undo restoring the state before the j-th last mutation.
C27_UndoAllRestores ==
    CurrentExists =>
        \A m \in Mutations : \A mutated \in { Mutate(images, currentImageId, m) } :
            UndoRestoresAfter(mutated, currentImageId, << Snapshot(Current) >>,
                              MoreMutations)

\* two mutations have been undone one after the other, down to the state
\* before the first of them
C27_Witness ==
    /\ lastOp = "undo"
    /\ CurrentExists
    /\ Len(Current.history) = 2
    /\ Current.historyIndex = -1
    /\ Snapshot(Current) = At(Current.history, 0)
    /\ Snapshot(Current) # At(Current.history, 1)

\* the store methods that write to the current image
CurrentImageOps ==
    { "updateAdjustments", "updateCrop", "undo", "redo", "reset",
      "setPreviewImage", "setProcessedImage" }

\* the ids of the images, in the order of the array
IdsOf(imgs) == [i \in 1..Len(imgs) |-> imgs[i].id]

\* what each of these methods makes of imgs when currentImageId is cid
CurrentImageResults(imgs, cid) ==
    { updateAdjustments(imgs, cid, u) : u \in AdjustmentUpdates }
        \cup { updateCrop(imgs, cid, u) : u \in CropUpdates }
        \cup { undo(imgs, cid), redo(imgs, cid), reset(imgs, cid) }
        \cup { setPreviewImage(imgs, cid, d) : d \in Derived }
        \cup { setProcessedImage(imgs, cid, d) : d \in Derived }

\* C28: updateAdjustments, updateCrop, undo, redo, reset, setPreviewImage and
\* setProcessedImage leave every image whose id is not currentImageId, the
\* order of the images and currentImageId as they were, and with a null
\* currentImageId they leave the images as they are.
C28_OnlyCurrentImageChanges ==
    [][/\ lastOp' \in CurrentImageOps =>
            /\ currentImageId' = currentImageId
            /\ IdsOf(images') = IdsOf(images)
            /\ \A i \in 1..Len(images) :
                   images[i].id # currentImageId => images'[i] = images[i]
       /\ CurrentImageResults(images, 0) = { images }]_vars

\* a mutation of the second of two images has left the first untouched
C28_Witness ==
    /\ lastOp \in CurrentImageOps
    /\ Len(images) = 2
    /\ currentImageId = images[2].id
    /\ images[2].history # << >>
    /\ images[2].adjustments # DEFAULT_ADJUSTMENTS
    /\ images[1].history = << >>
    /\ images[1].adjustments = DEFAULT_ADJUSTMENTS

\* currentImageId is null when there is no image and names one otherwise
SelectsAnImage(imgs, cid) ==
    IF imgs = << >> THEN cid = 0 ELSE HasImage(imgs, cid)

\* the first image of the array, null when there is none
FirstId(imgs) == IF imgs = << >> THEN 0 ELSE imgs[1].id

\* removing the current image of imgs, whichever it is, selects the first
\* image that remains
RemovingCurrentSelectsFirst(imgs) ==
    \A cid \in { imgs[i].id : i \in 1..Len(imgs) } :
        \A r \in { removeImage(imgs, cid, cid) } :
            /\ r.currentImageId = FirstId(r.images)
            /\ SelectsAnImage(r.images, r.currentImageId)

\* C29: from the empty store, as long as setCurrentImage is called with the
\* id of an existing image, currentImageId is null exactly when images is
\* empty and otherwise the id of an image of images; removing the current
\* image selects the first remaining image (null when none remains), also
\* with one image more than the store holds.
C29_CurrentIsAnImage ==
    /\ SelectsAnImage(images, currentImageId)
    /\ [][/\ (/\ SelectsAnImage(images, currentImageId)
              /\ lastOp' = "setCurrentImage" => HasImage(images, currentImageId'))
                 => SelectsAnImage(images', currentImageId')
          /\ (/\ lastOp' = "removeImage"
              /\ CurrentExists
              /\ ~HasImage(images', currentImageId))
                 => currentImageId' = FirstId(images')
          /\ \A imageData \in Files :
                 RemovingCurrentSelectsFirst(
                     Append(images, createImageData(nextId + 1, imageData)))]_vars

\* the second of two images was opened last and is the one that remains
\* selected after a removal
C29_Witness ==
    /\ lastOp = "removeImage"
    /\ nextId = 2
    /\ Len(images) = 1
    /\ images[1].id = 2
    /\ currentImageId = 2

\* the scalar fields of ImageAdjustments
Scalars == DOMAIN DEFAULT_ADJUSTMENTS \ { "curves" }

\* all scalars zero and the four curves the diagonal from (0,0) to (1,1)
IsAllDefault(adjustments) ==
    /\ \A f \in Scalars : adjustments[f] = 0
    /\ DOMAIN adjustments.curves = { "master", "red", "green", "blue" }
    /\ \A c \in DOMAIN adjustments.curves :
           adjustments.curves[c] = << [x |-> 0, y |-> 0], [x |-> 1, y |-> 1] >>

\* C30: reset() leaves the current image with all-zero scalars, four identity
\* curves, the default crop, an empty history and historyIndex = -1, so that
\* neither undo nor redo is enabled and calling them changes nothing.
C30_ResetClearsHistory ==
    [][(lastOp' = "reset" /\ CurrentExists) =>
          /\ IsAllDefault(CurrentAfter.adjustments)
          /\ CurrentAfter.crop = DEFAULT_CROP
          /\ CurrentAfter.history = << >>
          /\ CurrentAfter.historyIndex = -1
          /\ ~canUndo(CurrentAfter)
          /\ ~canRedo(CurrentAfter)
          /\ undo(images', currentImageId') = images'
          /\ redo(images', currentImageId') = images']_vars

\* reset has been called on an image that keeps the picture written to it
\* while it was edited
C30_Witness ==
    /\ lastOp = "reset"
    /\ CurrentExists
    /\ Current.previewImage # NoImage
    /\ Current.adjustments = DEFAULT_ADJUSTMENTS
    /\ Current.history = << >>
    /\ ~canUndo(Current)
    /\ ~canRedo(Current)

(***************************************************************************)
(* Properties of the worker round trip, checked under SpecPipeline.        *)
(***************************************************************************)
Tasks == 1..Len(tasks)

\* the calls of processImageInWorker whose promise is not settled
Pending == { t \in Tasks : tasks[t].pc = "await" }

\* C1: the promise of every processImageInWorker call is settled with the
\* response the worker produced for that call's own request.
C1_SettledByOwnResponse ==
    \A t \in Tasks : tasks[t].settledBy # 0 => tasks[t].settledBy = t

\* C7: at most one request is posted to the worker and not yet answered.
C7_OneRequestInFlight == Cardinality(Pending) <= 1

\* every run has ended, every request is answered and every response is
\* dispatched, and the effect has run with the latest dependencies
Quiet ==
    /\ Deps = effectDeps
    /\ \A t \in Tasks : tasks[t].pc \in { "done", "discarded", "rejected", "cancelled" }
    /\ \A w \in 1..Len(workers) : workers[w].inbox = << >> /\ workers[w].outbox = << >>

\* C19: when an edit came while an earlier preview request was unanswered
\* and nothing was edited after it, then once all requests are answered and
\* the latest preview run has stored its result, the processedImage of the
\* current image is the one computed from the latest adjustments and crop.
C19_LatestEditWins ==
    (/\ Quiet
     /\ \A t \in Tasks : tasks[t].kind = "preview"
     /\ \E t \in Tasks : tasks[t].cleanedAt = "await"
     /\ effectTask # 0
     /\ tasks[effectTask].pc = "done"
     /\ tasks[effectTask].adjustments = Current.adjustments
     /\ tasks[effectTask].crop = Current.crop) =>
        /\ Current.processedImage.rendered
        /\ Current.processedImage.adjustments = Current.adjustments
        /\ Current.processedImage.crop = Current.crop

\* the effect of run t has been cleaned up
CleanedUp(t) == tasks[t].kind = "preview" /\ tasks[t].cleanedAt # "never"

\* C25: a preview run whose effect has been cleaned up never calls
\* setProcessedImage: no step of such a run changes the store, and a run
\* that stores its result has not been cleaned up, whenever the cleanup came.
C25_CleanedUpNeverStores ==
    [][\A t \in Tasks :
          /\ (CleanedUp(t) /\ tasks'[t] # tasks[t]) => images' = images
          /\ (tasks[t].kind = "preview" /\ tasks[t].pc # "done" /\ tasks'[t].pc = "done")
                => (tasks[t].active /\ tasks[t].cleanedAt = "never")]_vars

\* a run was cleaned up between processImage resolving and the frame that
\* stores the result, and the frame has run without storing
C25_Witness ==
    \E t \in Tasks :
        /\ tasks[t].cleanedAt = "rafCommit"
        /\ tasks[t].pc = "discarded"
        /\ tasks[t].result # NoImage

\* call t of processImageInWorker has posted its request and is not settled
Awaits(t) == Len(tasks) >= t /\ tasks[t].pc = "await"

\* the promise of call t is resolved or rejected
Settled(t) == Len(tasks) >= t /\ tasks[t].settledBy # 0

\* C26: with a worker that answers every message and no terminateWorker,
\* every processImageInWorker call is settled in the end, also when several
\* calls are pending together; and a settled call has no listener left on
\* the worker.
C26_EveryCallSettles ==
    /\ \A t \in 1..MaxTasks : Awaits(t) ~> Settled(t)
    /\ [](\A t \in Tasks :
             tasks[t].settledBy # 0 => t \notin workers[tasks[t].worker].listeners)

\* two calls were pending together and both are settled, by one response
C26_Witness ==
    \E t, u \in Tasks :
        /\ t # u
        /\ tasks[t].settledBy # 0
        /\ tasks[u].settledBy = tasks[t].settledBy
        /\ workers[tasks[t].worker].listeners = {}

\* C11: once processImageInWorker has posted its request, the main thread
\* holds no readable buffer with the pixels it handed to the worker.
C11_BufferMoved ==
    \A t \in Tasks :
        tasks[t].pc = "await" =>
            tasks[t].imageData # "readable" /\ tasks[t].buffer # "readable"

(***************************************************************************)
(* Failure of a processImage run, checked under SpecRun.                   *)
(***************************************************************************)
\* a step in which a processImage run fails
RunFails ==
    \E t \in Tasks : tasks[t].pc # "rejected" /\ tasks'[t].pc = "rejected"

\* C8: a step in which a processImage run fails (decode error, no canvas
\* context, failure response or error event of the worker) leaves the images
\* of the store, with their adjustments, crop, history, historyIndex and
\* processedImage, and currentImageId as they were.
C8_FailureLeavesStore ==
    [][RunFails => (images' = images /\ currentImageId' = currentImageId)]_vars

\* a run has been rejected by a failure response of the worker, on an image
\* that has a history entry and a stored processedImage
C8_Witness ==
    \E t \in Tasks :
        /\ tasks[t].pc = "rejected"
        /\ tasks[t].settledBy = t
        /\ Len(Current.history) >= 1
        /\ Current.processedImage = FileImage(1)

(***************************************************************************)
(* The order of the stages, checked under SpecStages.                      *)
(***************************************************************************)
\* the stages of a run that succeeds, in the order the claim gives
StagesInOrder(task) ==
    << "geometry", "post", "color", "curves" >>
        \o (IF task.adjustments.blur > 0 THEN << "blur" >> ELSE << >>)
        \o (IF task.adjustments.sharpness > 0 THEN << "sharpen" >> ELSE << >>)
        \o << "response" >>

IsPrefix(a, b) == Len(a) <= Len(b) /\ a = SubSeq(b, 1, Len(a))

\* a stage of the worker threw: the stages before it, then the failure response
IsCutShort(a, b) ==
    /\ Len(a) >= 3
    /\ Len(a) <= Len(b) - 1
    /\ a[Len(a)] = "response"
    /\ SubSeq(a, 1, Len(a) - 1) = SubSeq(b, 1, Len(a) - 1)

\* C9: in every run geometry comes before the one request posted to the
\* worker; the worker runs color, then curves, then blur iff blur > 0, then
\* sharpen iff sharpness > 0, and posts its response after the last stage;
\* on each of the four geometry paths exactly one request is posted.
C9_StagesInOrder ==
    \A t \in Tasks :
        LET task == tasks[t]
            order == StagesInOrder(task)
            posted == { i \in 1..Len(task.trace) : task.trace[i] = "post" }
            requests ==
                { << w, i >> \in (1..Len(workers)) \X (1..Len(tasks)) :
                    i <= Len(workers[w].inbox) /\ workers[w].inbox[i].req = t }
        IN /\ IsPrefix(task.trace, order) \/ IsCutShort(task.trace, order)
           /\ task.pc \in { "await", "raf3", "raf4", "rafCommit", "done", "discarded" }
                  => Cardinality(posted) = 1
           /\ Cardinality(requests) <= 1
           /\ task.pc \in { "timer", "rafStart", "load", "raf1", "cancelled" }
                  => task.trace = << >>
           /\ (task.settledBy = t /\ task.pc # "rejected") => task.trace = order

\* a run on the rotate-and-crop path, with blur and sharpness set, is done
C9_Witness ==
    \E t \in Tasks :
        /\ tasks[t].pc = "done"
        /\ GeometryPath(tasks[t].crop) = "rotateCrop"
        /\ tasks[t].adjustments.blur > 0
        /\ tasks[t].adjustments.sharpness > 0
        /\ tasks[t].trace =
               << "geometry", "post", "color", "curves", "blur", "sharpen", "response" >>

(***************************************************************************)
(* The size of the output, checked under SpecGeometry.                     *)
(***************************************************************************)
\* C12: a run whose crop has width > 0 and height > 0 outputs a raster of
\* exactly crop.width by crop.height pixels, with or without rotation,
\* whatever the size of the source and the position of the crop.
C12_OutputIsCropSize ==
    \A t \in Tasks :
        (tasks[t].pc = "done" /\ hasCrop(tasks[t].crop)) =>
            /\ tasks[t].result.width = tasks[t].crop.width
            /\ tasks[t].result.height = tasks[t].crop.height

\* a rotated crop larger than its source was exported at the size of the crop
C12_Witness ==
    \E t \in Tasks :
        /\ tasks[t].pc = "done"
        /\ GeometryPath(tasks[t].crop) = "rotateCrop"
        /\ tasks[t].crop.width > tasks[t].src.width
        /\ tasks[t].crop.height > tasks[t].src.height
        /\ tasks[t].result.width = tasks[t].crop.width
        /\ tasks[t].result.height = tasks[t].crop.height

\* the part of the interval [from, from + length] inside [0, limit]
Clamped(from, length, limit) ==
    LET low == IF from < 0 THEN 0 ELSE from
        high == IF from + length > limit THEN limit ELSE from + length
    IN IF high > low THEN high - low ELSE 0

\* the crop has no area, as given or once clamped to the source
ZeroArea(src, crop) ==
    \/ crop.width <= 0
    \/ crop.height <= 0
    \/ Clamped(crop.x, crop.width, src.width) = 0
    \/ Clamped(crop.y, crop.height, src.height) = 0

\* C13: a run without rotation whose crop has zero area, as given or after
\* clamping to the source, outputs the full source: its raster has the
\* width and the height of the source.
C13_ZeroAreaUsesSource ==
    \A t \in Tasks :
        (/\ tasks[t].pc = "done"
         /\ ~hasRotation(tasks[t].crop)
         /\ ZeroArea(tasks[t].src, tasks[t].crop)) =>
            /\ tasks[t].result.width = tasks[t].src.width
            /\ tasks[t].result.height = tasks[t].src.height

(***************************************************************************)
(* The pixel functions, checked under SpecPixels.                          *)
(***************************************************************************)
\* C14: in the raster a rotated run returns, every background pixel that the
\* rotation introduced has alpha 0, whatever the adjustments.
C14_BackgroundTransparent ==
    (applied.fn = "processImage" /\ ~applied.out.thrown) =>
        \A i \in applied.background : applied.out.imageData.data[i].a = 0

\* the curve is [(0,0), (1,1)]
IsIdentityCurve(points) ==
    /\ Len(points) = 2
    /\ points[1].x = 0 /\ points[1].y = 0
    /\ points[2].x = Den(points[2]) /\ points[2].y = Den(points[2])

\* C15: createLUT of the identity curve [(0,0), (1,1)] returns the table
\* with lut[i] = i for every i in 0..255.
C15_IdentityLUT ==
    (applied.fn = "createLUT" /\ IsIdentityCurve(applied.points)) =>
        /\ ~applied.out.thrown
        /\ \A i \in 0..255 : applied.out.lut[i] = i

\* createLUT has been applied to DEFAULT_CURVES' identity curve
C15_Witness ==
    /\ applied.fn = "createLUT"
    /\ applied.points = IdentityCurve
    /\ applied.out.lut[0] = 0
    /\ applied.out.lut[128] = 128
    /\ applied.out.lut[255] = 255

\* all eight scalar adjustments are 0 and the four curves are the identity
IsNeutral(adjustments) ==
    /\ \A f \in { "exposure", "contrast", "saturation", "temperature", "tint",
                  "highlights", "shadows", "whiteBalance" } : adjustments[f] = 0
    /\ \A c \in { "master", "red", "green", "blue" } :
          IsIdentityCurve(adjustments.curves[c])

Near(a, b) == a - b <= 1 /\ b - a <= 1

\* C16: with all scalar adjustments 0 and identity curves,
\* applyColorAdjustments followed by applyCurves leaves R, G and B within 1
\* of the input and alpha as it was, for every pixel.
C16_NeutralKeepsPixels ==
    (applied.fn = "applyCurves" /\ IsNeutral(applied.adjustments)) =>
        /\ ~applied.out.thrown
        /\ \A i \in 1..Len(applied.data) :
              /\ Near(applied.out.data[i].r, applied.data[i].r)
              /\ Near(applied.out.data[i].g, applied.data[i].g)
              /\ Near(applied.out.data[i].b, applied.data[i].b)
              /\ applied.out.data[i].a = applied.data[i].a

\* a half transparent pixel went through both passes with the defaults
C16_Witness ==
    /\ applied.fn = "applyCurves"
    /\ applied.adjustments = DEFAULT_ADJUSTMENTS
    /\ applied.data = << [r |-> 127, g |-> 128, b |-> 255, a |-> 200] >>
    /\ applied.out.data = applied.data

\* every two points of the curve have the same x
FewerThanTwoXs(points) ==
    \A j, k \in 1..Len(points) :
        points[j].x * Den(points[k]) = points[k].x * Den(points[j])

\* C17: for every curve with fewer than 2 distinct x-values (no point, one
\* point, or points sharing one x) createLUT does not throw and returns a
\* table that is the identity or a constant.
C17_DegenerateCurve ==
    (applied.fn = "createLUT" /\ FewerThanTwoXs(applied.points)) =>
        /\ ~applied.out.thrown
        /\ \/ \A i \in 0..255 : applied.out.lut[i] = i
           \/ \A i \in 0..255 : applied.out.lut[i] = applied.out.lut[0]

\* the pixels of a raster that are not on its border
Interior(raster) ==
    { << x, y >> \in (1..(raster.width - 2)) \X (1..(raster.height - 2)) : TRUE }

\* C18: applyConvolution with the kernel [0,0,0,0,1,0,0,0,0] returns a raster
\* of the same width and height in which every interior pixel has the R, G
\* and B of the source.
C18_IdentityKernel ==
    (applied.fn = "applyConvolution" /\ applied.kernel = IdentityKernel) =>
        /\ applied.out.width = applied.imageData.width
        /\ applied.out.height = applied.imageData.height
        /\ \A p \in Interior(applied.imageData) :
              LET from == PixelAt(applied.imageData, p[1], p[2])
                  to == PixelAt(applied.out, p[1], p[2])
              IN to.r = from.r /\ to.g = from.g /\ to.b = from.b

\* the identity kernel has been applied to a raster with an interior pixel
C18_Witness ==
    /\ applied.fn = "applyConvolution"
    /\ applied.kernel = IdentityKernel
    /\ Interior(applied.imageData) # {}
    /\ PixelAt(applied.out, 1, 1).r = PixelAt(applied.imageData, 1, 1).r

\* C22: applyCurves maps each R, G and B value v of every pixel to
\* masterLUT[channelLUT[v]], the channel's curve first and the master curve
\* on its result, and leaves every alpha value as it was.
C22_ChannelThenMaster ==
    (/\ applied.fn = "applyCurves"
     /\ \A c \in { "master", "red", "green", "blue" } :
           applied.adjustments.curves[c] # << >>) =>
        LET curves == applied.adjustments.curves
            masterLUT == createLUT(curves.master).lut
        IN /\ ~applied.out.thrown
           /\ Len(applied.out.data) = Len(applied.coloured)
           /\ \A i \in 1..Len(applied.coloured) :
                 /\ applied.out.data[i].r
                       = masterLUT[createLUT(curves.red).lut[applied.coloured[i].r]]
                 /\ applied.out.data[i].g
                       = masterLUT[createLUT(curves.green).lut[applied.coloured[i].g]]
                 /\ applied.out.data[i].b
                       = masterLUT[createLUT(curves.blue).lut[applied.coloured[i].b]]
                 /\ applied.out.data[i].a = applied.coloured[i].a

\* applyCurves has mapped a red value through a channel curve and a master
\* curve that give another value when applied the other way round
C22_Witness ==
    /\ applied.fn = "applyCurves"
    /\ applied.adjustments.curves.red = HalvingCurve
    /\ applied.adjustments.curves.master = LiftingCurve
    /\ applied.coloured[1].r = 128
    /\ applied.out.data[1].r = 160
    /\ applied.out.data[1].a = 200

IsUniform(raster, v) ==
    \A i \in 1..(raster.width * raster.height) :
        raster.data[i].r = v /\ raster.data[i].g = v /\ raster.data[i].b = v

\* r, g and b of the pixel at (x, y) are the stored value of num / 9
HasValue(raster, x, y, num) ==
    /\ PixelAt(raster, x, y).r = ToUint8ClampedQuotient(num, 9)
    /\ PixelAt(raster, x, y).g = ToUint8ClampedQuotient(num, 9)
    /\ PixelAt(raster, x, y).b = ToUint8ClampedQuotient(num, 9)

OnEdgeX(raster, x) == x = 0 \/ x = raster.width - 1
OnEdgeY(raster, y) == y = 0 \/ y = raster.height - 1

\* the box blur of a uniform raster of value v: 4v/9 at a corner, 6v/9 on
\* the rest of the border, v inside, and v/9 for a raster of one pixel
BoxBlurByPlace(in, out, v) ==
    \A x \in 0..(in.width - 1), y \in 0..(in.height - 1) :
        IF in.width = 1 /\ in.height = 1 THEN HasValue(out, x, y, v)
        ELSE IF OnEdgeX(in, x) /\ OnEdgeY(in, y) THEN HasValue(out, x, y, 4 * v)
        ELSE IF OnEdgeX(in, x) \/ OnEdgeY(in, y) THEN HasValue(out, x, y, 6 * v)
        ELSE HasValue(out, x, y, 9 * v)

\* the number of pixels of the raster in the 3 x 3 block around (x, y)
Taps(raster, x, y) ==
    Cardinality({ c \in ((x - 1)..(x + 1)) \X ((y - 1)..(y + 1)) :
                    /\ c[1] >= 0 /\ c[1] < raster.width
                    /\ c[2] >= 0 /\ c[2] < raster.height })

BlurredUniform(v) ==
    /\ applied.fn = "applyConvolution"
    /\ applied.kernel = BlurKernel
    /\ IsUniform(applied.imageData, v)

\* C24 as stated: under the 3x3 box blur a raster of uniform value v gets
\* 4v/9 at its corners, 6v/9 on the rest of its border and v inside, and
\* the pixel of a 1x1 raster v/9.
C24_BoxBlurByPlace ==
    \A v \in 0..255 :
        BlurredUniform(v) => BoxBlurByPlace(applied.imageData, applied.out, v)

\* C24, amended: applyConvolution skips the taps outside the raster and does
\* not renormalize, so under the 3x3 box blur every pixel of a raster of
\* uniform value v gets taps * v / 9 for its taps inside the raster; that is
\* 4v/9, 6v/9 and v by place when the raster is at least 2 wide and 2 high,
\* and v/9 for a 1x1 raster.
C24_BoxBlurTaps ==
    \A v \in 0..255 :
        BlurredUniform(v) =>
            /\ applied.out.width = applied.imageData.width
            /\ applied.out.height = applied.imageData.height
            /\ \A x \in 0..(applied.imageData.width - 1),
                  y \in 0..(applied.imageData.height - 1) :
                  HasValue(applied.out, x, y, Taps(applied.imageData, x, y) * v)
            /\ (applied.imageData.width >= 2 /\ applied.imageData.height >= 2) =>
                  BoxBlurByPlace(applied.imageData, applied.out, v)
            /\ (applied.imageData.width = 1 /\ applied.imageData.height = 1) =>
                  HasValue(applied.out, 0, 0, v)

\* a 3x3 raster of value 90 has been blurred: 40 at a corner, 60 on the
\* border, 90 in the middle
C24_Witness ==
    /\ BlurredUniform(90)
    /\ applied.imageData.width = 3 /\ applied.imageData.height = 3
    /\ PixelAt(applied.out, 0, 0).r = 40
    /\ PixelAt(applied.out, 1, 0).r = 60
    /\ PixelAt(applied.out, 1, 1).r = 90

\* the x-values of the points differ from each other
DistinctXs(points) ==
    \A j, k \in 1..Len(points) :
        j # k => points[j].x * Den(points[k]) # points[k].x * Den(points[j])

\* clamp(Math.round(y * 255)) for the y at x = i / 255 on the line through
\* p0 and p1, whose x-values differ
OnLine(p0, p1, i) ==
    LET range == p1.x * Den(p0) - p0.x * Den(p1)
        num == 255 * (p0.y * range * 255
                      + (i * Den(p0) - 255 * p0.x) * (p1.y * Den(p0) - p0.y * Den(p1)))
        den == Den(p0) * range * 255
    IN clamp(Round(num, den))

\* C21: for a curve of 3 or more points with distinct x-values, an index
\* whose x = i/255 is below the smallest x gets the value on the line of the
\* first segment, and one above the largest x the value on the line of the
\* last segment.
C21_EndSegments ==
    (/\ applied.fn = "createLUT"
     /\ Len(applied.points) >= 3
     /\ DistinctXs(applied.points)) =>
        LET sorted == SortByX(applied.points)
            n == Len(sorted)
        IN /\ ~applied.out.thrown
           /\ \A i \in 0..255 :
                 /\ i * Den(sorted[1]) < 255 * sorted[1].x =>
                       applied.out.lut[i] = OnLine(sorted[1], sorted[2], i)
                 /\ i * Den(sorted[n]) > 255 * sorted[n].x =>
                       applied.out.lut[i] = OnLine(sorted[n - 1], sorted[n], i)

(***************************************************************************)
(* The worker loader, checked under SpecWorker.                            *)
(***************************************************************************)
Live == { w \in 1..Len(workers) : workers[w].alive }

C10_Loader ==
    /\ Cardinality(Live) <= 1
    /\ workerInstance # 0 => Live = { workerInstance }

C10_Reuse ==
    /\ Len(workers') > Len(workers) =>
          /\ workerInstance = 0
          /\ Len(workers') = Len(workers) + 1
          /\ workerInstance' = Len(workers')
    /\ (workerInstance # 0 /\ workerInstance' # workerInstance) =>
          /\ workerInstance' = 0
          /\ ~workers'[workerInstance].alive

\* C10: at most one worker that is not terminated exists; a Worker is created
\* only by a getImageWorker call made when there is none (the first call, or
\* the first after terminateWorker), and until terminateWorker every call
\* returns that same instance.
C10_SingleWorker == []C10_Loader /\ [][C10_Reuse]_vars

\* worker w takes the oldest request it has received
Takes(w) ==
    /\ workers[w].alive
    /\ workers[w].inbox # << >>
    /\ workers'[w].alive
    /\ workers'[w].inbox = Tail(workers[w].inbox)

\* the response answers the request as self.onmessage does
Answers(response, request) ==
    /\ response.type = "message"
    /\ response.req = request.req
    /\ IF response.success
       THEN /\ response.pixels.rendered
            /\ response.width = request.width
            /\ response.height = request.height
       ELSE response.error \in { "color", "curves", "blur", "sharpen" }

C20_Step(w) ==
    /\ Takes(w) =>
          /\ Len(workers'[w].outbox) = Len(workers[w].outbox) + 1
          /\ SubSeq(workers'[w].outbox, 1, Len(workers[w].outbox)) = workers[w].outbox
          /\ Answers(workers'[w].outbox[Len(workers'[w].outbox)], Head(workers[w].inbox))
    /\ Len(workers'[w].outbox) > Len(workers[w].outbox) => Takes(w)

\* C20: the worker posts one response for each request it takes, after the
\* responses it posted before and for the oldest request first: a success
\* with pixels and the width and height of the request, or a failure with an
\* error string; it posts nothing else, and after a failure it goes on
\* taking the requests that follow.
C20_OneResponsePerRequest ==
    [][\A w \in 1..Len(workers) : C20_Step(w)]_vars

\* a worker has answered a request with a failure and the next with a success
C20_Witness ==
    \E w \in 1..Len(workers) :
        /\ Len(workers[w].outbox) = 2
        /\ ~workers[w].outbox[1].success
        /\ workers[w].outbox[2].success
        /\ workers[w].outbox[1].req # workers[w].outbox[2].req
        /\ workers[w].inbox = << >>

\* after a terminateWorker two calls in a row were given the second Worker
C10_Witness ==
    /\ Len(workers) = 2
    /\ ~workers[1].alive
    /\ workerInstance = 2
    /\ \E t, u \in Tasks : t # u /\ tasks[t].worker = 2 /\ tasks[u].worker = 2

====
